---- MODULE Spec2Model ----
(***************************************************************************)
(* A model of boring-proxy: the leaf-certificate cache of CertManager      *)
(* (src/src/cert_manager.rs), the per-host session pool of SessionManager  *)
(* (src/src/session_manager.rs) and the request pipeline of                *)
(* Proxy::handle_request (src/src/proxy.rs, src/src/main.rs).              *)
(***************************************************************************)
EXTENDS Integers, Sequences, FiniteSets, TLC

VARIABLES
    \* ---- CertManager (cert_manager.rs) ----
    cert_cache,   \* moka cache: host |-> leaf (chain, key), domain = cached hosts
    nextSerial,   \* number of leaves signed so far (each has a fresh key + serial)
    cpc,          \* per caller: position inside get_or_create_cert
    chost,        \* per caller: the domain argument
    cleaf,        \* per caller: the leaf this call signed (NoLeaf if none)
    cret,         \* per caller: the value returned (NoLeaf if none yet)
    evicted,      \* history: hosts whose cache entry was evicted at least once
    \* ---- SessionManager (session_manager.rs) ----
    now,          \* the clock read by Instant::now(), in seconds
    sessions,     \* HashMap<String, Session>, domain = hosts with an entry
    clientHeap,   \* every RqClient built so far, by identity: [profile, jar]
    nextJar,      \* number of cookie jars created so far
    jarCookies,   \* per cookie jar: the cookies it holds
    mutex,        \* holder of the sessions mutex (MutexFree if none)
    gcWake,       \* cleanup task: the instant its sleep ends
    removedJars,  \* history: jars of the entries cleanup_sessions removed
    doneJars,     \* history: per host, jars of the clients of completed requests
    \* ---- one inbound request per slot (proxy.rs handle_request) ----
    rpc,          \* per slot: position in the request pipeline
    rreq,         \* per slot: the inbound request
    rlocal,       \* per slot: locals of get_or_create_session
    rclient,      \* per slot: the client handle get_or_create_session returned
    rprior,       \* history: doneJars of the request's host when it arrived
    rout,         \* per slot: the outbound request as built and sent
    rresp,        \* per slot: the response returned to the client
    rbridge,      \* per slot: the WebSocket pre-GET and the bridge task spawned after it
    rconn,        \* per slot: the client connection: "open", "upgraded", "closed"
    served,       \* history: number of requests that have arrived
    \* ---- tunnels and the accept loop (proxy.rs CONNECT branch, main.rs) ----
    tun,          \* per slot: the tunnel a CONNECT on the connection set up
    accepting,    \* the accept loop of main is running
    \* ---- the WebSocket bridge of one upgraded request (websocket_handler.rs) ----
    bstate,       \* position of handle_websocket_upgrade
    half,         \* per half: "none", "read", "send", "ended", "cancelled"
    held,         \* per half: the translated message it is sending
    srcLog,       \* history, per half: the items it has read
    dstLog,       \* history, per half: the messages it has written
    streams,      \* the WebSocket streams the function holds
    ws_req,       \* the upstream WebSocket handshake request the function built
    \* ---- the root CA on disk and in memory (cert_manager.rs new) ----
    disk,         \* contents of ca.crt and ca.key in the working directory
    root,         \* (root_cert, root_key) of the running CertManager
    nextRoot,     \* number of root pairs generated so far
    boots         \* history: the CertManager::new() calls so far

certVars == <<cert_cache, nextSerial, cpc, chost, cleaf, cret, evicted>>

poolVars == <<now, sessions, clientHeap, nextJar, jarCookies, mutex, gcWake,
              removedJars, doneJars>>

reqVars == <<rpc, rreq, rlocal, rclient, rprior, rout, rresp, rbridge, rconn, served>>

tunVars == <<tun, accepting>>

wsVars == <<bstate, half, held, srcLog, dstLog, streams, ws_req>>

caVars == <<disk, root, nextRoot, boots>>

vars == <<certVars, poolVars, reqVars, tunVars, wsVars, caVars>>

\* ---------------------------------------------------------------- bounds
NumCallers == 3
MaxLeaves == 2
MaxRequests == 3
MaxProxyRequests == 2
MaxTicks == 2
MaxMsgs == 2
MaxBoots == 3
MaxAdvances == 16

Hosts == {"a.test", "b.test"}
Callers == 1..NumCallers

\* ------------------------------------------------------- CertManager
\* Host strings as clients may write them: a host of Hosts spelled with a
\* capital letter, next to the hosts themselves.
CertHosts == Hosts \cup {"A.test"}

\* str::to_lowercase on the host strings of CertHosts.
host_to_lowercase(h) == IF h = "A.test" THEN "a.test" ELSE h

NoLeaf == [serial |-> 0, cn |-> "", issuer |-> ""]
ErrLeaf == [serial |-> -1, cn |-> "", issuer |-> ""]
RootSubject == "<BORING-PROXY CA>"

\* The (chain, key) pair a fresh signing produces: a new RSA key and a new
\* random serial make it distinct from every earlier one.
SignLeaf(domain, n) == [serial |-> n, cn |-> domain, issuer |-> RootSubject]

\* A lookup that never finds the entry (a wrong key, a cache that is never read).
CacheGetMiss(domain) == NoLeaf

CacheGet(domain) == IF domain \in DOMAIN cert_cache THEN cert_cache[domain] ELSE NoLeaf

CacheInsert(domain, leaf) ==
    [k \in DOMAIN cert_cache \cup {domain} |-> IF k = domain THEN leaf ELSE cert_cache[k]]

InitCert ==
    /\ cert_cache = << >>
    /\ nextSerial = 0
    /\ cpc = [t \in Callers |-> "idle"]
    /\ chost = [t \in Callers |-> ""]
    /\ cleaf = [t \in Callers |-> NoLeaf]
    /\ cret = [t \in Callers |-> NoLeaf]
    /\ evicted = {}

\* get_or_create_cert, entry and cache lookup: a hit returns the cached value.
CertLookup(t, domain) ==
    /\ cpc[t] = "idle"
    /\ chost' = [chost EXCEPT ![t] = domain]
    /\ cleaf' = [cleaf EXCEPT ![t] = NoLeaf]
    /\ IF CacheGet(domain) # NoLeaf
       THEN /\ cpc' = [cpc EXCEPT ![t] = "done"]
            /\ cret' = [cret EXCEPT ![t] = CacheGet(domain)]
       ELSE /\ cpc' = [cpc EXCEPT ![t] = "sign"]
            /\ cret' = [cret EXCEPT ![t] = NoLeaf]
    /\ UNCHANGED <<cert_cache, nextSerial, evicted>>
    /\ UNCHANGED <<poolVars, reqVars, tunVars, wsVars, caVars>>

\* get_or_create_cert, key generation, certificate building and signing; any
\* of the `?` steps may fail and the call returns the error.
CertSign(t) ==
    /\ cpc[t] = "sign"
    /\ nextSerial < MaxLeaves
    /\ \E ok \in BOOLEAN :
         IF ok
         THEN /\ nextSerial' = nextSerial + 1
              /\ cleaf' = [cleaf EXCEPT ![t] = SignLeaf(chost[t], nextSerial + 1)]
              /\ cpc' = [cpc EXCEPT ![t] = "insert"]
              /\ cret' = cret
         ELSE /\ cpc' = [cpc EXCEPT ![t] = "done"]
              /\ cret' = [cret EXCEPT ![t] = ErrLeaf]
              /\ UNCHANGED <<nextSerial, cleaf>>
    /\ UNCHANGED <<cert_cache, chost, evicted>>
    /\ UNCHANGED <<poolVars, reqVars, tunVars, wsVars, caVars>>

\* get_or_create_cert, cache insert and return of the value just signed.
CertInsert(t) ==
    /\ cpc[t] = "insert"
    /\ cert_cache' = CacheInsert(chost[t], cleaf[t])
    /\ cret' = [cret EXCEPT ![t] = cleaf[t]]
    /\ cpc' = [cpc EXCEPT ![t] = "done"]
    /\ UNCHANGED <<nextSerial, chost, cleaf, evicted>>
    /\ UNCHANGED <<poolVars, reqVars, tunVars, wsVars, caVars>>

\* The caller takes the result; the slot is free for another call.
CertReturn(t) ==
    /\ cpc[t] = "done"
    /\ cpc' = [cpc EXCEPT ![t] = "idle"]
    /\ chost' = [chost EXCEPT ![t] = ""]
    /\ cleaf' = [cleaf EXCEPT ![t] = NoLeaf]
    /\ cret' = [cret EXCEPT ![t] = NoLeaf]
    /\ UNCHANGED <<cert_cache, nextSerial, evicted>>
    /\ UNCHANGED <<poolVars, reqVars, tunVars, wsVars, caVars>>

\* The cache's own eviction: time-to-live of 89 days or capacity.
CacheEvict(domain) ==
    /\ domain \in DOMAIN cert_cache
    /\ cert_cache' = [k \in DOMAIN cert_cache \ {domain} |-> cert_cache[k]]
    /\ evicted' = evicted \cup {domain}
    /\ UNCHANGED <<nextSerial, cpc, chost, cleaf, cret>>
    /\ UNCHANGED <<poolVars, reqVars, tunVars, wsVars, caVars>>

\* ------------------------------------------------------ SessionManager
PROFILES == {"Chrome131", "Firefox133"}
Cookies == {"s=1"}
SessionTimeoutSecs == 1800
GcPeriodSecs == 300
\* The clock is observed every 15 minutes: entry ages of 0, 15 and 30 minutes.
ClockStep == 3 * GcPeriodSecs
GcStep == GcPeriodSecs \div 2

Reqs == {1, 2}
JarIds == 1..MaxRequests
MutexFree == 0
NoClient == 0
NoLocal == [new_profile |-> "", found |-> FALSE, jar |-> 0, client |-> NoClient]

\* Instant::duration_since saturates at zero.
DurationSince(later, earlier) == IF later >= earlier THEN later - earlier ELSE 0

\* The mutex is handed out although it is held.
MutexAlwaysAvailable == TRUE

\* parking_lot::Mutex::lock returns only while nobody holds the mutex.
MutexAvailable == mutex = MutexFree

\* The draw always gives the same member of the slice.
choose_fixed(slice) == {CHOOSE p \in slice : TRUE}

\* slice.choose(&mut thread_rng()): the values the draw can give, any member
\* of the slice, whatever was drawn or stored before.
choose(slice) == slice

\* The builder is given no profile to impersonate.
create_client_untagged(profile, cookie_jar) == [profile |-> "", jar |-> cookie_jar]

\* create_client: a client impersonating `profile`, with `cookie_jar` as its
\* cookie provider. The builder can fail; that is the caller's `built` choice.
create_client(profile, cookie_jar) == [profile |-> profile, jar |-> cookie_jar]

\* The rebuilt client overwrites the client object the entry already holds.
ReuseClientId(heap, stored) == stored

\* A rebuilt client is a new object; the stored one is replaced, not mutated.
NewClientId(heap, stored) == Len(heap) + 1

StoreClient(heap, id, c) ==
    [i \in 1..(IF id > Len(heap) THEN id ELSE Len(heap)) |-> IF i = id THEN c ELSE heap[i]]

\* The rotated client gets a cookie jar of its own.
FreshJarForRotation(found_jar) == nextJar + 1

\* Arc::clone(&session.cookie_jar): the rotated client shares the entry's jar.
JarForRotation(found_jar) == found_jar

\* An entry is kept up to and including the timeout.
KeepInclusive(t, session) == DurationSince(t, session.last_used) <= SessionTimeoutSecs

\* The retain predicate of cleanup_sessions.
Keep(t, session) == DurationSince(t, session.last_used) < SessionTimeoutSecs

\* The rotation forgets to stamp the entry.
StaleLastUsed(session, t) == session.last_used

\* session.last_used = Instant::now()
TouchLastUsed(session, t) == t

ClientJar(id) == clientHeap[id].jar
ClientProfile(id) == clientHeap[id].profile

InitPool ==
    /\ now = 0
    /\ sessions = << >>
    /\ clientHeap = << >>
    /\ nextJar = 0
    /\ jarCookies = [j \in JarIds |-> {}]
    /\ mutex = MutexFree
    /\ gcWake = GcPeriodSecs
    /\ removedJars = {}
    /\ doneJars = [h \in Hosts |-> {}]

\* Time passes.
Tick ==
    /\ now + ClockStep <= MaxTicks * ClockStep
    /\ now' = now + ClockStep
    /\ UNCHANGED <<sessions, clientHeap, nextJar, jarCookies, mutex, gcWake,
                   removedJars, doneJars>>
    /\ UNCHANGED <<certVars, reqVars, tunVars, wsVars, caVars>>

\* The cleanup task sleeps two periods between runs.
SleepTwoPeriods(t) == t + 2 * GcPeriodSecs

\* tokio::time::sleep(Duration::from_secs(300)) started at t ends at
SleepUntil(t) == t + GcPeriodSecs

\* Time passes in steps of half a cleanup period, with timers firing on time
\* and synchronous code taking no time: the clock does not pass the end of
\* the cleanup task's sleep before the task has run, and does not move while
\* the sessions mutex is held.
Advance ==
    /\ now < gcWake
    /\ mutex = MutexFree
    /\ now + GcStep <= MaxAdvances * GcStep
    /\ now' = now + GcStep
    /\ UNCHANGED <<sessions, clientHeap, nextJar, jarCookies, mutex, gcWake,
                   removedJars, doneJars>>
    /\ UNCHANGED <<certVars, reqVars, tunVars, wsVars, caVars>>

\* The cleanup task wakes from its sleep and runs cleanup_sessions: lock,
\* retain, unlock; then it sleeps again.
cleanup_sessions ==
    /\ now >= gcWake
    /\ MutexAvailable
    /\ LET kept == {k \in DOMAIN sessions : Keep(now, sessions[k])}
       IN /\ sessions' = [k \in kept |-> sessions[k]]
          /\ removedJars' = removedJars \cup
                              {sessions[k].cookie_jar : k \in DOMAIN sessions \ kept}
    /\ gcWake' = SleepUntil(now)
    /\ UNCHANGED <<now, clientHeap, nextJar, jarCookies, mutex, doneJars>>
    /\ UNCHANGED <<certVars, reqVars, tunVars, wsVars, caVars>>

\* ------------------------------------------------- strings and headers
\* Text is a tuple of characters, so that case folding, prefix and substring
\* tests are computed, not assumed.
UpperChars == <<"A", "B", "C", "D", "E", "F", "G", "H", "I", "J", "K", "L", "M", "N", "O", "P", "Q", "R", "S", "T", "U", "V", "W", "X", "Y", "Z">>
LowerChars == <<"a", "b", "c", "d", "e", "f", "g", "h", "i", "j", "k", "l", "m", "n", "o", "p", "q", "r", "s", "t", "u", "v", "w", "x", "y", "z">>

LowerChar(c) ==
    IF \E i \in 1..Len(UpperChars) : UpperChars[i] = c
    THEN LowerChars[CHOOSE i \in 1..Len(UpperChars) : UpperChars[i] = c]
    ELSE c

to_lowercase(str) == [i \in 1..Len(str) |-> LowerChar(str[i])]

starts_with(str, prefix) ==
    Len(str) >= Len(prefix) /\ SubSeq(str, 1, Len(prefix)) = prefix

contains(str, pat) ==
    \E i \in 1..(Len(str) - Len(pat) + 1) : SubSeq(str, i, i + Len(pat) - 1) = pat

eq_ignore_ascii_case(a, b) == to_lowercase(a) = to_lowercase(b)

\* hyper parses a header line into a HeaderName, which is lower case.
HeaderName(wire) == to_lowercase(wire)

USER_AGENT == <<"u", "s", "e", "r", "-", "a", "g", "e", "n", "t">>
ACCEPT == <<"a", "c", "c", "e", "p", "t">>
ACCEPT_ENCODING == <<"a", "c", "c", "e", "p", "t", "-", "e", "n", "c", "o", "d", "i", "n", "g">>
ACCEPT_LANGUAGE == <<"a", "c", "c", "e", "p", "t", "-", "l", "a", "n", "g", "u", "a", "g", "e">>
HOST == <<"h", "o", "s", "t">>
UPGRADE == <<"u", "p", "g", "r", "a", "d", "e">>
CONNECTION == <<"c", "o", "n", "n", "e", "c", "t", "i", "o", "n">>
CONTENT_LENGTH == <<"c", "o", "n", "t", "e", "n", "t", "-", "l", "e", "n", "g", "t", "h">>
SecPrefix == <<"s", "e", "c", "-">>
SecWebSocketKey == <<"S", "e", "c", "-", "W", "e", "b", "S", "o", "c", "k", "e", "t", "-", "K", "e", "y">>
SecWebSocketVersion == <<"S", "e", "c", "-", "W", "e", "b", "S", "o", "c", "k", "e", "t", "-", "V", "e", "r", "s", "i", "o", "n">>
SecWebSocketProtocol ==
    <<"S", "e", "c", "-", "W", "e", "b", "S", "o", "c", "k", "e", "t", "-",
      "P", "r", "o", "t", "o", "c", "o", "l">>
WebsocketToken == <<"w", "e", "b", "s", "o", "c", "k", "e", "t">>
UpgradeToken == <<"u", "p", "g", "r", "a", "d", "e">>

Header(wire, value) == [name |-> HeaderName(wire), value |-> value]

\* HeaderMap::get: the first value of the name, as an option (<<v>> or << >>);
\* a name given as text is matched case-insensitively.
HeaderGet(headers, name) ==
    LET idx == {i \in 1..Len(headers) : headers[i].name = to_lowercase(name)}
    IN IF idx = {} THEN << >>
       ELSE <<headers[CHOOSE i \in idx : \A j \in idx : i <= j].value>>

\* The sec- test looks for the prefix anywhere in the name.
KeepHeaderHttpsLoose(k) ==
    /\ k # USER_AGENT /\ k # ACCEPT /\ k # ACCEPT_ENCODING /\ k # ACCEPT_LANGUAGE
    /\ k # HOST
    /\ ~contains(to_lowercase(k), SecPrefix)

\* The header-copy condition of the intercepted-HTTPS path.
KeepHeaderHttps(k) ==
    /\ k # USER_AGENT /\ k # ACCEPT /\ k # ACCEPT_ENCODING /\ k # ACCEPT_LANGUAGE
    /\ k # HOST
    /\ ~starts_with(to_lowercase(k), SecPrefix)

\* The header-copy condition of the plain-HTTP path.
KeepHeaderPlain(k) ==
    /\ k # USER_AGENT /\ k # ACCEPT /\ k # ACCEPT_ENCODING /\ k # ACCEPT_LANGUAGE
    /\ k # HOST
    /\ ~starts_with(to_lowercase(k), SecPrefix)

\* The header-copy condition of the upstream WebSocket handshake: the five
\* named headers are skipped unless the name is one of three sec-websocket
\* names.
KeepHeaderWs(k) ==
    \/ (k # USER_AGENT /\ k # ACCEPT /\ k # ACCEPT_ENCODING /\ k # ACCEPT_LANGUAGE
            /\ k # HOST)
    \/ to_lowercase(k) = to_lowercase(SecWebSocketKey)
    \/ to_lowercase(k) = to_lowercase(SecWebSocketVersion)
    \/ to_lowercase(k) = to_lowercase(SecWebSocketProtocol)

KeepHeader(kind, k) ==
    IF kind = "https" THEN KeepHeaderHttps(k)
    ELSE IF kind = "ws" THEN KeepHeaderWs(k)
    ELSE KeepHeaderPlain(k)

RECURSIVE CopyHeaders(_, _)
\* for (k, v) in req.headers() { if <condition> { rq = rq.header(k, v) } }
CopyHeaders(kind, headers) ==
    IF headers = << >> THEN << >>
    ELSE (IF KeepHeader(kind, Head(headers).name) THEN <<Head(headers)>> ELSE << >>)
         \o CopyHeaders(kind, Tail(headers))

\* The Connection test is dropped.
is_websocket_no_connection(headers) ==
    /\ HeaderGet(headers, UPGRADE) # << >>
    /\ eq_ignore_ascii_case(HeaderGet(headers, UPGRADE)[1], WebsocketToken)
    /\ HeaderGet(headers, SecWebSocketKey) # << >>
    /\ HeaderGet(headers, SecWebSocketVersion) # << >>

\* The WebSocket-upgrade test of the intercepted-HTTPS path.
is_websocket(headers) ==
    /\ HeaderGet(headers, UPGRADE) # << >>
    /\ eq_ignore_ascii_case(HeaderGet(headers, UPGRADE)[1], WebsocketToken)
    /\ HeaderGet(headers, CONNECTION) # << >>
    /\ contains(to_lowercase(HeaderGet(headers, CONNECTION)[1]), UpgradeToken)
    /\ HeaderGet(headers, SecWebSocketKey) # << >>
    /\ HeaderGet(headers, SecWebSocketVersion) # << >>

\* The match has no PATCH arm.
MapMethodNoPatch(m) == IF m \in {"GET", "POST", "PUT", "DELETE"} THEN m ELSE "GET"

\* match *req.method() { GET | POST | PUT | DELETE | PATCH => same, _ => GET }
MapMethod(m) == IF m \in {"GET", "POST", "PUT", "DELETE", "PATCH"} THEN m ELSE "GET"

\* The inner request of a tunnel has no scheme: scheme https and, if it has
\* no authority either, the CONNECT host are filled in.
TargetUrl(req) ==
    IF req.kind = "https" /\ req.uri.scheme = ""
    THEN [scheme |-> "https",
          authority |-> IF req.uri.authority = "" THEN req.host ELSE req.uri.authority,
          path |-> req.uri.path]
    ELSE req.uri

\* The error arm of the tunnel's service: the error becomes a response.
HttpsErrorArm(e) == [status |-> 500, headers |-> << >>, body |-> <<"Error: ", e>>]

\* The error arm of main's service_fn: the error becomes a response.
MainErrorArm(e) == [status |-> 500, headers |-> << >>, body |-> <<"Error: ", e>>]

ErrorResponse(kind, e) == IF kind = "https" THEN HttpsErrorArm(e) ELSE MainErrorArm(e)

\* create_websocket_response
create_websocket_response ==
    [status |-> 101,
     headers |-> <<Header(CONNECTION, UpgradeToken), Header(UPGRADE, WebsocketToken)>>,
     body |-> << >>]

\* ------------------------------------------------------------- tunnels
NoAlpn == ""
\* The application protocols a TLS peer can name.
AlpnProtocols == {"h2", "http/1.1"}
NoTunnel == [state |-> "none", host |-> "", port |-> 0, offered |-> {}, alpn |-> NoAlpn,
             server |-> "", events |-> << >>]

\* create_server_config: config.alpn_protocols = vec![b"http/1.1".to_vec()]
ServerAlpn == <<"http/1.1">>

\* The protocol a successful TLS handshake settles on: the first of the
\* server's protocols that the client offers, none if there is none. (A
\* TLS library that refuses a client with no protocol in common fails the
\* handshake instead.)
Negotiate(offered) ==
    LET common == {i \in 1..Len(ServerAlpn) : ServerAlpn[i] \in offered}
    IN IF common = {} THEN NoAlpn
       ELSE ServerAlpn[CHOOSE i \in common : \A j \in common : i <= j]

\* Every tunnel is served by the HTTP/2 server.
ServerAlwaysHttp2(alpn) == "http2"

\* let alpn = ...alpn_protocol() == Some(b"h2"); if alpn { http2 } else { http1 }
ServerFor(alpn) == IF alpn = "h2" THEN "http2" ELSE "http1_with_upgrades"

\* The inner service exists as soon as the tunnel task was spawned.
TunnelSpawned(t) == t.state # "none"

\* The inner service exists inside the Ok(tls_stream) arm only.
TunnelServing(t) == t.state = "serving"

\* Which service a request of the kind reaches on connection r: main's
\* service_fn before any CONNECT, the tunnel's inner service for its host.
Serves(r, req) ==
    IF req.kind = "https"
    THEN TunnelServing(tun[r]) /\ req.host = tun[r].host
    ELSE tun[r].state = "none"

InitTunnel ==
    /\ tun = [r \in {1, 2} |-> NoTunnel]
    /\ accepting = TRUE

\* ------------------------------------------------- the request pipeline
NoUri == [scheme |-> "", authority |-> "", path |-> ""]
NoReq == [kind |-> "", host |-> "", method |-> "", uri |-> NoUri, headers |-> << >>, body |-> 0]
NoOut == [method |-> "", url |-> NoUri, headers |-> << >>, body |-> 0,
          profile |-> "", cookies |-> {}, sent |-> FALSE]
NoResp == [status |-> 0, headers |-> << >>, body |-> << >>]
NoGet == [url |-> NoUri, client |-> NoClient, response_url |-> NoUri]
NoBridge == [get |-> NoGet, url |-> NoUri, client |-> NoClient, headers |-> << >>,
             spawned |-> FALSE]

UpStatuses == {200, 404}
BuildErrors == {"builder error"}
CollectErrors == {"body error"}
SendErrors == {"connection refused"}
ReadErrors == {"read error"}

InitReq ==
    /\ rpc = [r \in Reqs |-> "idle"]
    /\ rreq = [r \in Reqs |-> NoReq]
    /\ rlocal = [r \in Reqs |-> NoLocal]
    /\ rclient = [r \in Reqs |-> NoClient]
    /\ rprior = [r \in Reqs |-> {}]
    /\ rout = [r \in Reqs |-> NoOut]
    /\ rresp = [r \in Reqs |-> NoResp]
    /\ rbridge = [r \in Reqs |-> NoBridge]
    /\ rconn = [r \in Reqs |-> "open"]
    /\ served = 0

\* The service future resolves with the response. History: the jar of the
\* request's client.
Respond(r, resp) ==
    /\ rpc' = [rpc EXCEPT ![r] = "done"]
    /\ rresp' = [rresp EXCEPT ![r] = resp]
    /\ doneJars' = IF rclient[r] = NoClient THEN doneJars
                   ELSE [doneJars EXCEPT ![rreq[r].host] = @ \cup {ClientJar(rclient[r])}]

\* A failed request removes the session of its host.
ErrorArmEvicting(r, e) ==
    /\ Respond(r, ErrorResponse(rreq[r].kind, e))
    /\ sessions' = [h \in DOMAIN sessions \ {rreq[r].host} |-> sessions[h]]
    /\ UNCHANGED <<now, clientHeap, nextJar, jarCookies, mutex, gcWake, removedJars>>

\* An await of the pipeline fails with e: `?` carries the error to the error
\* arm, which answers the request; the session map is not touched.
ErrorArm(r, e) ==
    /\ Respond(r, ErrorResponse(rreq[r].kind, e))
    /\ UNCHANGED <<now, sessions, clientHeap, nextJar, jarCookies, mutex, gcWake, removedJars>>

\* A request arrives on an open connection (a plain-HTTP request at main's
\* service, or a decrypted inner request at the tunnel's service) and enters
\* get_or_create_session: lock, draw the profile, look the host up.
Arrive(r, req) ==
    /\ rpc[r] = "idle"
    /\ rconn[r] = "open"
    /\ Serves(r, req)
    /\ served < MaxRequests
    /\ MutexAvailable
    /\ mutex' = r
    /\ served' = served + 1
    /\ rpc' = [rpc EXCEPT ![r] = "gs_build"]
    /\ rreq' = [rreq EXCEPT ![r] = req]
    /\ rprior' = [rprior EXCEPT ![r] = doneJars[req.host]]
    /\ \E p \in choose(PROFILES) :
         rlocal' = [rlocal EXCEPT ![r] =
                      IF req.host \in DOMAIN sessions
                      THEN [new_profile |-> p, found |-> TRUE,
                            jar |-> sessions[req.host].cookie_jar,
                            client |-> sessions[req.host].client]
                      ELSE [new_profile |-> p, found |-> FALSE, jar |-> 0,
                            client |-> NoClient]]
    /\ UNCHANGED <<now, sessions, clientHeap, nextJar, jarCookies, gcWake,
                   removedJars, doneJars>>
    /\ UNCHANGED <<rclient, rout, rresp, rbridge, rconn, certVars, tunVars, wsVars, caVars>>

\* hyper has written the response; the slot's request is over.
Finish(r) ==
    /\ rpc[r] = "done"
    /\ rpc' = [rpc EXCEPT ![r] = "idle"]
    /\ rreq' = [rreq EXCEPT ![r] = NoReq]
    /\ rlocal' = [rlocal EXCEPT ![r] = NoLocal]
    /\ rclient' = [rclient EXCEPT ![r] = NoClient]
    /\ rprior' = [rprior EXCEPT ![r] = {}]
    /\ rout' = [rout EXCEPT ![r] = NoOut]
    /\ rresp' = [rresp EXCEPT ![r] = NoResp]
    /\ rbridge' = [rbridge EXCEPT ![r] = IF @.spawned THEN @ ELSE NoBridge]
    /\ UNCHANGED <<rconn, served, poolVars, certVars, tunVars, wsVars, caVars>>

\* With the client in hand the handler runs on to its next await: an inner
\* request that is a WebSocket upgrade enters handle_websocket_request and
\* awaits its GET; every other request becomes the outbound request (method,
\* url, copied headers) and awaits the inbound body.
Dispatch(r) ==
    IF rreq[r].kind = "https" /\ is_websocket(rreq[r].headers)
    THEN /\ rpc' = [rpc EXCEPT ![r] = "ws_get"]
         /\ rout' = rout
    ELSE /\ rpc' = [rpc EXCEPT ![r] = "collect"]
         /\ rout' = [rout EXCEPT ![r] =
                       [NoOut EXCEPT !.method = MapMethod(rreq[r].method),
                                     !.url = TargetUrl(rreq[r]),
                                     !.headers = CopyHeaders(rreq[r].kind, rreq[r].headers)]]

\* The rotation stores the new client but keeps the profile stored before.
RotatedSessionOldProfile(session, id, new_profile) ==
    [client |-> id, profile |-> session.profile,
     last_used |-> TouchLastUsed(session, now), cookie_jar |-> session.cookie_jar]

\* The entry of `host` after a successful rotation: client and profile are
\* replaced, last_used is stamped, the jar stays.
RotatedSession(session, id, new_profile) ==
    [client |-> id, profile |-> new_profile,
     last_used |-> TouchLastUsed(session, now), cookie_jar |-> session.cookie_jar]

\* get_or_create_session, entry found: stamp last_used, build the client on
\* the entry's jar, replace client and profile, return a clone, unlock. If the
\* build fails the error is returned after last_used was stamped.
RotateExisting(r, built) ==
    LET host == rreq[r].host
        id == NewClientId(clientHeap, rlocal[r].client)
        new_client == create_client(rlocal[r].new_profile, JarForRotation(rlocal[r].jar))
    IN IF built
       THEN /\ clientHeap' = StoreClient(clientHeap, id, new_client)
            /\ sessions' = [k \in DOMAIN sessions |->
                              IF k = host
                              THEN RotatedSession(sessions[k], id, rlocal[r].new_profile)
                              ELSE sessions[k]]
            /\ rclient' = [rclient EXCEPT ![r] = id]
            /\ Dispatch(r)
            /\ UNCHANGED <<rresp, doneJars>>
       ELSE /\ sessions' = [k \in DOMAIN sessions |->
                              IF k = host
                              THEN [sessions[k] EXCEPT !.last_used = TouchLastUsed(sessions[k], now)]
                              ELSE sessions[k]]
            /\ \E e \in BuildErrors : Respond(r, ErrorResponse(rreq[r].kind, e))
            /\ UNCHANGED <<clientHeap, rclient, rout>>

\* get_or_create_session, no entry: a new jar, a client on it, the entry is
\* inserted, a clone returned, unlock. If the build fails nothing is inserted.
CreateNew(r, built) ==
    LET host == rreq[r].host
        cookie_jar == nextJar + 1
        id == Len(clientHeap) + 1
    IN IF built
       THEN /\ nextJar' = cookie_jar
            /\ clientHeap' = StoreClient(clientHeap, id,
                                         create_client(rlocal[r].new_profile, cookie_jar))
            /\ sessions' = [k \in DOMAIN sessions \cup {host} |->
                              IF k = host
                              THEN [client |-> id, profile |-> rlocal[r].new_profile,
                                    last_used |-> now, cookie_jar |-> cookie_jar]
                              ELSE sessions[k]]
            /\ rclient' = [rclient EXCEPT ![r] = id]
            /\ Dispatch(r)
            /\ UNCHANGED <<rresp, doneJars>>
       ELSE /\ \E e \in BuildErrors : Respond(r, ErrorResponse(rreq[r].kind, e))
            /\ UNCHANGED <<nextJar, clientHeap, sessions, rclient, rout>>

\* The guard is dropped only when the client was built.
DropGuardOnOk(r, built) == IF built THEN MutexFree ELSE r

\* The MutexGuard `sessions` goes out of scope when get_or_create_session
\* returns, by Ok or by `?`.
DropGuard(r, built) == MutexFree

\* get_or_create_session from the lookup to its return (the mutex guard is
\* dropped), then the handler up to its next await.
GsBuild(r) ==
    /\ rpc[r] = "gs_build"
    /\ \E built \in BOOLEAN :
         /\ IF rlocal[r].found
            THEN RotateExisting(r, built) /\ UNCHANGED nextJar
            ELSE CreateNew(r, built)
         /\ mutex' = DropGuard(r, built)
    /\ rlocal' = [rlocal EXCEPT ![r] = [NoLocal EXCEPT !.new_profile = rlocal[r].new_profile]]
    /\ rprior' = [rprior EXCEPT ![r] = {}]
    /\ UNCHANGED <<now, jarCookies, gcWake, removedJars>>
    /\ UNCHANGED <<rreq, rbridge, rconn, served, certVars, tunVars, wsVars, caVars>>

\* req.into_body().collect().await returns the body: a non-empty one is
\* attached with its Content-Length, and rq.send() puts the request on the
\* wire with the client's profile and the cookies its jar holds then.
CollectBody(r) ==
    /\ rpc[r] = "collect"
    /\ rout' = [rout EXCEPT ![r] =
                  [@ EXCEPT !.headers =
                                IF rreq[r].body > 0
                                THEN @ \o <<[name |-> CONTENT_LENGTH,
                                             value |-> <<rreq[r].body>>]>>
                                ELSE @,
                            !.body = rreq[r].body,
                            !.profile = ClientProfile(rclient[r]),
                            !.cookies = jarCookies[ClientJar(rclient[r])],
                            !.sent = TRUE]]
    /\ rpc' = [rpc EXCEPT ![r] = "await"]
    /\ UNCHANGED <<rreq, rlocal, rclient, rprior, rresp, rbridge, rconn, served, poolVars,
                   certVars, tunVars, wsVars, caVars>>

\* req.into_body().collect().await fails: the error ends the request.
CollectFail(r) ==
    /\ rpc[r] = "collect"
    /\ \E e \in CollectErrors : ErrorArm(r, e)
    /\ UNCHANGED <<rreq, rlocal, rclient, rprior, rout, rbridge, rconn, served, certVars, tunVars, wsVars, caVars>>

\* rq.send().await returns the response head; its Set-Cookie lands in the
\* client's jar.
RecvResponse(r, status, setc) ==
    /\ rpc[r] = "await"
    /\ jarCookies' = [jarCookies EXCEPT ![ClientJar(rclient[r])] = @ \cup setc]
    /\ rresp' = [rresp EXCEPT ![r] = [status |-> status, headers |-> << >>, body |-> << >>]]
    /\ rpc' = [rpc EXCEPT ![r] = "recv"]
    /\ UNCHANGED <<now, sessions, clientHeap, nextJar, mutex, gcWake, removedJars, doneJars>>
    /\ UNCHANGED <<rreq, rlocal, rclient, rprior, rout, rbridge, rconn, served, certVars, tunVars, wsVars, caVars>>

\* rq.send().await fails: the error ends the request.
SendFail(r) ==
    /\ rpc[r] = "await"
    /\ \E e \in SendErrors : ErrorArm(r, e)
    /\ UNCHANGED <<rreq, rlocal, rclient, rprior, rout, rbridge, rconn, served, certVars, tunVars, wsVars, caVars>>

\* res.bytes().await returns the body: the response is returned, status and
\* headers as received.
RecvBody(r) ==
    /\ rpc[r] = "recv"
    /\ Respond(r, [rresp[r] EXCEPT !.body = <<"upstream body">>])
    /\ UNCHANGED <<now, sessions, clientHeap, nextJar, jarCookies, mutex, gcWake,
                   removedJars>>
    /\ UNCHANGED <<rreq, rlocal, rclient, rprior, rout, rbridge, rconn, served, certVars, tunVars, wsVars, caVars>>

\* res.bytes().await fails: the error ends the request.
ReadFail(r) ==
    /\ rpc[r] = "recv"
    /\ \E e \in ReadErrors : ErrorArm(r, e)
    /\ UNCHANGED <<rreq, rlocal, rclient, rprior, rout, rbridge, rconn, served, certVars, tunVars, wsVars, caVars>>

RedirectedUrl(url) == [url EXCEPT !.path = "/redirected"]

\* The handshake goes to the url the client asked for.
RequestedUrl(url, response_url) == url

\* let final_url = res.url().to_string();
FinalUrl(url, response_url) == response_url

\* handle_websocket_request: a GET to the url first; if it fails the error is
\* the response. Otherwise the bridge task is spawned on the upgrade handle
\* with the client, the final url and the request's headers, and the 101
\* response is returned; the connection is then upgraded.
WsGet(r) ==
    /\ rpc[r] = "ws_get"
    /\ \E ok \in BOOLEAN :
         IF ok
         THEN \E response_url \in {TargetUrl(rreq[r]), RedirectedUrl(TargetUrl(rreq[r]))},
                 setc \in SUBSET Cookies :
                /\ jarCookies' = [jarCookies EXCEPT ![ClientJar(rclient[r])] = @ \cup setc]
                /\ rbridge' = [rbridge EXCEPT ![r] =
                                 [get |-> [url |-> TargetUrl(rreq[r]), client |-> rclient[r],
                                           response_url |-> response_url],
                                  url |-> FinalUrl(TargetUrl(rreq[r]), response_url),
                                  client |-> rclient[r],
                                  headers |-> rreq[r].headers, spawned |-> TRUE]]
                /\ Respond(r, create_websocket_response)
                /\ rconn' = [rconn EXCEPT ![r] = "upgraded"]
                /\ UNCHANGED <<now, sessions, clientHeap, nextJar, mutex, gcWake,
                               removedJars>>
         ELSE /\ \E e \in SendErrors : ErrorArm(r, e)
              /\ UNCHANGED <<rbridge, rconn>>
    /\ UNCHANGED <<rreq, rlocal, rclient, rprior, rout, served, certVars, tunVars, wsVars, caVars>>

\* The task spawned for the upgrade ends: upgrade.await failed and
\* handle_websocket_upgrade was never entered, or it has returned. The
\* upgraded connection is gone with it.
BridgeEnd(r) ==
    /\ rconn[r] = "upgraded"
    /\ rpc[r] = "idle"
    /\ bstate \in {"none", "returned"}
    /\ rconn' = [rconn EXCEPT ![r] = "closed"]
    /\ rbridge' = [rbridge EXCEPT ![r] = NoBridge]
    /\ tun' = [tun EXCEPT ![r] = NoTunnel]
    /\ UNCHANGED <<rpc, rreq, rlocal, rclient, rprior, rout, rresp, served, poolVars,
                   certVars, accepting, wsVars, caVars>>

\* The client closes its connection between requests; a tunnel on it ends.
ConnClose(r) ==
    /\ rconn[r] = "open"
    /\ rpc[r] = "idle"
    /\ rconn' = [rconn EXCEPT ![r] = "closed"]
    /\ tun' = [tun EXCEPT ![r] = NoTunnel]
    /\ UNCHANGED <<rpc, rreq, rlocal, rclient, rprior, rout, rresp, rbridge, served, poolVars,
                   certVars, accepting, wsVars, caVars>>

\* The accept loop takes a new connection and spawns its service.
Accept(r) ==
    /\ accepting
    /\ rconn[r] = "closed"
    /\ rpc[r] = "idle"
    /\ rconn' = [rconn EXCEPT ![r] = "open"]
    /\ UNCHANGED <<rpc, rreq, rlocal, rclient, rprior, rout, rresp, rbridge, served, poolVars,
                   certVars, tunVars, wsVars, caVars>>

\* ------------------------------------------------ the CONNECT branch
MintErrors == {"mint error"}

\* The ports an http and an https URL without a port are connected on.
HttpPort == 80
HttpsPort == 443
\* The ports a CONNECT names: the default one and another.
ConnectPorts == {HttpsPort, HttpsPort + 8000}

\* The port an outbound URL is connected on. The authority synthesised for an
\* inner request is the CONNECT's host without its port, and the inner
\* requests carry no port of their own, so it is the default of the scheme.
UrlPort(url) == IF url.scheme = "https" THEN HttpsPort ELSE HttpPort
ConnectRequest(host) ==
    [kind |-> "connect", host |-> host, method |-> "CONNECT",
     uri |-> [scheme |-> "", authority |-> host, path |-> ""],
     headers |-> << >>, body |-> 0]

\* Response::new(empty())
TunnelResponse == [status |-> 200, headers |-> << >>, body |-> << >>]

\* A CONNECT arrives at main's service and create_server_config succeeds:
\* the leaf is taken from the cache or signed and cached, the tunnel task is
\* spawned on the upgrade handle and the 200 response returned.
ConnectAt(r, host, port) ==
    /\ rpc[r] = "idle"
    /\ rconn[r] = "open"
    /\ tun[r].state = "none"
    /\ IF CacheGet(host) # NoLeaf
       THEN UNCHANGED <<cert_cache, nextSerial>>
       ELSE /\ nextSerial < MaxLeaves
            /\ nextSerial' = nextSerial + 1
            /\ cert_cache' = CacheInsert(host, SignLeaf(host, nextSerial + 1))
    /\ rreq' = [rreq EXCEPT ![r] = ConnectRequest(host)]
    /\ rresp' = [rresp EXCEPT ![r] = TunnelResponse]
    /\ rpc' = [rpc EXCEPT ![r] = "tunnel_200"]
    /\ tun' = [tun EXCEPT ![r] = [NoTunnel EXCEPT !.state = "spawned", !.host = host,
                                                  !.port = port, !.events = <<"mint">>]]
    /\ UNCHANGED <<cpc, chost, cleaf, cret, evicted, accepting, wsVars, caVars>>
    /\ UNCHANGED <<rlocal, rclient, rprior, rout, rbridge, rconn, served, poolVars>>

\* A CONNECT to the default port of https.
Connect(r, host) == ConnectAt(r, host, HttpsPort)

\* A CONNECT arrives and create_server_config fails: handle_request returns
\* the error to main's service_fn, which answers with its error arm.
ConnectFail(r, host) ==
    /\ rpc[r] = "idle"
    /\ rconn[r] = "open"
    /\ tun[r].state = "none"
    /\ rreq' = [rreq EXCEPT ![r] = ConnectRequest(host)]
    /\ \E e \in MintErrors : Respond(r, MainErrorArm(e))
    /\ UNCHANGED <<now, sessions, clientHeap, nextJar, jarCookies, mutex, gcWake,
                   removedJars>>
    /\ UNCHANGED <<rlocal, rclient, rprior, rout, rbridge, rconn, served, certVars, tunVars, wsVars, caVars>>

\* A request whose URI has no authority, as main's service receives it.
NoAuthorityRequest(method) ==
    [kind |-> IF method = "CONNECT" THEN "connect" ELSE "plain", host |-> "",
     method |-> method, uri |-> [scheme |-> "", authority |-> "", path |-> "/"],
     headers |-> << >>, body |-> 0]

\* .ok_or("No authority in CONNECT request")?, .ok_or("No authority in request")?
NoAuthorityError(method) ==
    IF method = "CONNECT" THEN "No authority in CONNECT request" ELSE "No authority in request"

\* A request without an authority arrives at main's service: handle_request
\* returns the error before it mints, acquires or sends anything, and the
\* error arm answers.
NoAuthority(r, method) ==
    /\ rpc[r] = "idle"
    /\ rconn[r] = "open"
    /\ tun[r].state = "none"
    /\ rreq' = [rreq EXCEPT ![r] = NoAuthorityRequest(method)]
    /\ Respond(r, MainErrorArm(NoAuthorityError(method)))
    /\ UNCHANGED <<now, sessions, clientHeap, nextJar, jarCookies, mutex, gcWake,
                   removedJars>>
    /\ UNCHANGED <<rlocal, rclient, rprior, rout, rbridge, rconn, served, certVars, tunVars, wsVars, caVars>>

\* hyper writes the 200 and upgrade.await resolves with the raw stream: the
\* outer HTTP service of the connection is over, the task goes on to the TLS
\* handshake.
TunnelUpgrade(r) ==
    /\ rpc[r] = "tunnel_200"
    /\ rpc' = [rpc EXCEPT ![r] = "idle"]
    /\ rreq' = [rreq EXCEPT ![r] = NoReq]
    /\ rresp' = [rresp EXCEPT ![r] = NoResp]
    /\ tun' = [tun EXCEPT ![r] = [@ EXCEPT !.state = "handshake",
                                          !.events = Append(@, "200")]]
    /\ UNCHANGED <<rlocal, rclient, rprior, rout, rbridge, rconn, served, poolVars, certVars,
                   accepting, wsVars, caVars>>

\* upgrade.await resolves with an error: it is logged, the task ends and the
\* connection is gone.
TunnelUpgradeFail(r) ==
    /\ rpc[r] = "tunnel_200"
    /\ rpc' = [rpc EXCEPT ![r] = "idle"]
    /\ rreq' = [rreq EXCEPT ![r] = NoReq]
    /\ rresp' = [rresp EXCEPT ![r] = NoResp]
    /\ rconn' = [rconn EXCEPT ![r] = "closed"]
    /\ tun' = [tun EXCEPT ![r] = NoTunnel]
    /\ UNCHANGED <<rlocal, rclient, rprior, rout, rbridge, served, poolVars, certVars,
                   accepting, wsVars, caVars>>

\* acceptor.accept(io).await succeeds for a client offering `offered`: the
\* inner service is created and the server chosen by the negotiated ALPN
\* starts serving the TLS stream.
Handshake(r, offered) ==
    /\ tun[r].state = "handshake"
    /\ rconn[r] = "open"
    /\ tun' = [tun EXCEPT ![r] = [@ EXCEPT !.state = "serving",
                                          !.offered = offered,
                                          !.alpn = Negotiate(offered),
                                          !.server = ServerFor(Negotiate(offered)),
                                          !.events = Append(@, "handshake")]]
    /\ UNCHANGED <<reqVars, poolVars, certVars, accepting, wsVars, caVars>>

\* acceptor.accept(io).await fails: the error is logged, the task ends and
\* the stream is dropped.
HandshakeFail(r) ==
    /\ tun[r].state = "handshake"
    /\ rconn[r] = "open"
    /\ rconn' = [rconn EXCEPT ![r] = "closed"]
    /\ tun' = [tun EXCEPT ![r] = NoTunnel]
    /\ UNCHANGED <<rpc, rreq, rlocal, rclient, rprior, rout, rresp, rbridge, served, poolVars,
                   certVars, accepting, wsVars, caVars>>

\* --------------------------------------------------- the WebSocket bridge
\* The close codes the two libraries share by name, and the further variants
\* of either enum.
StandardCodes ==
    {"Normal", "Away", "Protocol", "Unsupported", "Status", "Abnormal", "Invalid",
     "Policy", "Size", "Extension", "Error", "Restart", "Again"}
OtherCodes == {"Tls", "Reserved", "Iana", "Library", "Bad"}
CloseCodes == StandardCodes \cup OtherCodes

None == "None"
Payloads == {"a", "b"}
Reasons == {"", "bye"}

\* A message of either library: rquest::Message on the upstream side,
\* tungstenite::Message on the side of the proxy's client.
Msg(lib, kind, data, code, reason) ==
    [lib |-> lib, kind |-> kind, data |-> data, code |-> code, reason |-> reason]
NoMsg == Msg("", "", "", "", None)

\* The item of a read that yielded Some(Err(_)).
ReadErr(lib) == Msg(lib, "Err", "", "", None)

DataKinds == {"Text", "Binary", "Ping", "Pong"}

\* RqMessage::{Text, Binary, Ping, Pong}(data), RqMessage::Close { code, reason }
RqMessages ==
    {Msg("rquest", k, d, "", None) : k \in DataKinds, d \in Payloads}
        \cup {Msg("rquest", "Close", "", c, t) : c \in CloseCodes, t \in Reasons \cup {None}}

\* Message::{Text, Binary, Ping, Pong}(data), Message::Close(None),
\* Message::Close(Some(CloseFrame { code, reason })), Message::Frame(_)
TgMessages ==
    {Msg("tungstenite", k, d, "", None) : k \in DataKinds \cup {"Frame"}, d \in Payloads}
        \cup {Msg("tungstenite", "Close", "", None, None)}
        \cup {Msg("tungstenite", "Close", "", c, t) : c \in CloseCodes, t \in Reasons}

\* The close-code match loses the arm of Again.
RqCodeToTungsteniteNoAgain(code) ==
    CASE code = "Normal" -> "Normal"
      [] code = "Away" -> "Away"
      [] code = "Protocol" -> "Protocol"
      [] code = "Unsupported" -> "Unsupported"
      [] code = "Status" -> "Status"
      [] code = "Abnormal" -> "Abnormal"
      [] code = "Invalid" -> "Invalid"
      [] code = "Policy" -> "Policy"
      [] code = "Size" -> "Size"
      [] code = "Extension" -> "Extension"
      [] code = "Error" -> "Error"
      [] code = "Restart" -> "Restart"
      [] OTHER -> "Normal"

\* let close_code = match code { RqCloseCode::Normal => CloseCode::Normal, ...,
\* _ => CloseCode::Normal }
RqCodeToTungstenite(code) ==
    CASE code = "Normal" -> "Normal"
      [] code = "Away" -> "Away"
      [] code = "Protocol" -> "Protocol"
      [] code = "Unsupported" -> "Unsupported"
      [] code = "Status" -> "Status"
      [] code = "Abnormal" -> "Abnormal"
      [] code = "Invalid" -> "Invalid"
      [] code = "Policy" -> "Policy"
      [] code = "Size" -> "Size"
      [] code = "Extension" -> "Extension"
      [] code = "Error" -> "Error"
      [] code = "Restart" -> "Restart"
      [] code = "Again" -> "Again"
      [] OTHER -> "Normal"

\* let code = match f.code { CloseCode::Normal => RqCloseCode::Normal, ...,
\* _ => RqCloseCode::Normal }
TungsteniteCodeToRq(code) ==
    CASE code = "Normal" -> "Normal"
      [] code = "Away" -> "Away"
      [] code = "Protocol" -> "Protocol"
      [] code = "Unsupported" -> "Unsupported"
      [] code = "Status" -> "Status"
      [] code = "Abnormal" -> "Abnormal"
      [] code = "Invalid" -> "Invalid"
      [] code = "Policy" -> "Policy"
      [] code = "Size" -> "Size"
      [] code = "Extension" -> "Extension"
      [] code = "Error" -> "Error"
      [] code = "Restart" -> "Restart"
      [] code = "Again" -> "Again"
      [] OTHER -> "Normal"

\* reason.unwrap_or_default()
unwrap_or_default(reason) == IF reason = None THEN "" ELSE reason

\* Pong messages are not forwarded to the client.
RqToTungsteniteNoPong(msg) ==
    CASE msg.kind = "Text" -> Msg("tungstenite", "Text", msg.data, "", None)
      [] msg.kind = "Binary" -> Msg("tungstenite", "Binary", msg.data, "", None)
      [] msg.kind = "Ping" -> Msg("tungstenite", "Ping", msg.data, "", None)
      [] msg.kind = "Close" ->
             Msg("tungstenite", "Close", "", RqCodeToTungstenite(msg.code),
                 unwrap_or_default(msg.reason))
      [] OTHER -> NoMsg

\* The body of the client_to_server loop for one item read from the
\* upstream: nothing for an Err, else the tungstenite message to send.
RqToTungstenite(msg) ==
    CASE msg.kind = "Text" -> Msg("tungstenite", "Text", msg.data, "", None)
      [] msg.kind = "Binary" -> Msg("tungstenite", "Binary", msg.data, "", None)
      [] msg.kind = "Ping" -> Msg("tungstenite", "Ping", msg.data, "", None)
      [] msg.kind = "Pong" -> Msg("tungstenite", "Pong", msg.data, "", None)
      [] msg.kind = "Close" ->
             Msg("tungstenite", "Close", "", RqCodeToTungstenite(msg.code),
                 unwrap_or_default(msg.reason))
      [] OTHER -> NoMsg

\* The body of the server_to_client loop for one item read from the proxy's
\* client: nothing for an Err or a raw frame (`_ => continue`), else the
\* rquest message to send.
TungsteniteToRq(msg) ==
    CASE msg.kind = "Text" -> Msg("rquest", "Text", msg.data, "", None)
      [] msg.kind = "Binary" -> Msg("rquest", "Binary", msg.data, "", None)
      [] msg.kind = "Ping" -> Msg("rquest", "Ping", msg.data, "", None)
      [] msg.kind = "Pong" -> Msg("rquest", "Pong", msg.data, "", None)
      [] msg.kind = "Close" ->
             IF msg.code = None
             THEN Msg("rquest", "Close", "", "Normal", None)
             ELSE Msg("rquest", "Close", "", TungsteniteCodeToRq(msg.code), msg.reason)
      [] OTHER -> NoMsg

\* The two halves, by the names of their futures: client_to_server reads the
\* upstream and writes to the proxy's client, server_to_client the reverse.
Halves == {"client_to_server", "server_to_client"}
Sibling(d) == IF d = "client_to_server" THEN "server_to_client" ELSE "client_to_server"
SourceLib(d) == IF d = "client_to_server" THEN "rquest" ELSE "tungstenite"
Translate(d, msg) == IF d = "client_to_server" THEN RqToTungstenite(msg) ELSE TungsteniteToRq(msg)

\* Both futures are driven to their end.
JoinHalves(d) == [half EXCEPT ![d] = "ended"]

\* tokio::select!: the first future to finish ends the select, the other is
\* dropped where it stands.
SelectHalves(d) == [h \in Halves |-> IF h = d THEN "ended" ELSE "cancelled"]

\* The send reports Ok without the message reaching the wire.
WrittenNowhere(log, msg) == log

\* The message is put in front of what was written before.
WrittenFirst(log, msg) == <<msg>> \o log

\* write.send(msg).await returned Ok: the message is the next on the wire.
Written(log, msg) == Append(log, msg)

NoWsReq == [url |-> NoUri, client |-> NoClient, headers |-> << >>]

InitBridge ==
    /\ bstate = "none"
    /\ half = [d \in Halves |-> "none"]
    /\ held = [d \in Halves |-> NoMsg]
    /\ srcLog = [d \in Halves |-> << >>]
    /\ dstLog = [d \in Halves |-> << >>]
    /\ streams = {}
    /\ ws_req = NoWsReq

\* The upgrade resolves as soon as the handler has returned its response.
UpgradeResolvedEarly(r) == rconn[r] = "upgraded"

\* hyper::upgrade::on(req) resolves once the 101 of the request has been
\* written to the connection.
UpgradeResolved(r) == rconn[r] = "upgraded" /\ rpc[r] = "idle"

\* The 101 is written and upgrade.await gives the spawned task the client's
\* stream: handle_websocket_upgrade is entered, wraps the stream as the
\* server side and builds the upstream handshake request from the client,
\* the url and the headers the task was given.
BridgeSpawn(r) ==
    /\ bstate = "none"
    /\ UpgradeResolved(r)
    /\ rbridge[r].spawned
    /\ bstate' = "connecting"
    /\ streams' = {"client"}
    /\ ws_req' = [url |-> rbridge[r].url, client |-> rbridge[r].client,
                  headers |-> CopyHeaders("ws", rbridge[r].headers)]
    /\ UNCHANGED <<half, held, srcLog, dstLog>>
    /\ UNCHANGED <<certVars, poolVars, reqVars, tunVars, caVars>>

\* ws_req.send().await?.into_websocket().await? succeeds: both streams are
\* split and the select of the two halves starts.
BridgeConnect ==
    /\ bstate = "connecting"
    /\ bstate' = "running"
    /\ streams' = {"client", "upstream"}
    /\ half' = [d \in Halves |-> "read"]
    /\ UNCHANGED <<held, srcLog, dstLog, ws_req>>
    /\ UNCHANGED <<certVars, poolVars, reqVars, tunVars, caVars>>

\* The client's stream outlives the failed call.
KeepOnError(open) == open

\* `?` leaves handle_websocket_upgrade: server_stream, which owns the
\* upgraded connection, is dropped with the call's frame.
DropOnError(open) == {}

\* The upstream handshake fails: handle_websocket_upgrade returns the error
\* and the client's stream is dropped.
BridgeConnectFail ==
    /\ bstate = "connecting"
    /\ bstate' = "returned"
    /\ streams' = DropOnError(streams)
    /\ UNCHANGED <<half, held, srcLog, dstLog, ws_req>>
    /\ UNCHANGED <<certVars, poolVars, reqVars, tunVars, caVars>>

\* read.next().await yields an item: the loop body skips it or translates it
\* and goes on to send it.
Read(d, msg) ==
    /\ bstate = "running"
    /\ half[d] = "read"
    /\ Len(srcLog[d]) < MaxMsgs
    /\ msg.lib = SourceLib(d)
    /\ srcLog' = [srcLog EXCEPT ![d] = Append(@, msg)]
    /\ IF Translate(d, msg) = NoMsg
       THEN UNCHANGED <<half, held>>
       ELSE /\ held' = [held EXCEPT ![d] = Translate(d, msg)]
            /\ half' = [half EXCEPT ![d] = "send"]
    /\ UNCHANGED <<bstate, dstLog, streams, ws_req>>
    /\ UNCHANGED <<certVars, poolVars, reqVars, tunVars, caVars>>

\* write.send(msg).await returns Ok: back to the read.
Send(d) ==
    /\ bstate = "running"
    /\ half[d] = "send"
    /\ dstLog' = [dstLog EXCEPT ![d] = Written(@, held[d])]
    /\ held' = [held EXCEPT ![d] = NoMsg]
    /\ half' = [half EXCEPT ![d] = "read"]
    /\ UNCHANGED <<bstate, srcLog, streams, ws_req>>
    /\ UNCHANGED <<certVars, poolVars, reqVars, tunVars, caVars>>

\* One future of the select finishes: the select ends, what the sibling held
\* is dropped with it, handle_websocket_upgrade returns Ok(()) and the four
\* stream halves go out of scope.
HalfEnds(d) ==
    /\ half' = SelectHalves(d)
    /\ held' = [h \in Halves |-> NoMsg]
    /\ bstate' = "returned"
    /\ streams' = {}
    /\ UNCHANGED <<srcLog, dstLog, ws_req>>
    /\ UNCHANGED <<certVars, poolVars, reqVars, tunVars, caVars>>

\* read.next().await yields None: the while loop of the half ends.
ReadEnd(d) ==
    /\ bstate = "running"
    /\ half[d] = "read"
    /\ HalfEnds(d)

\* write.send(msg).await returns Err: logged, break.
BridgeSendFail(d) ==
    /\ bstate = "running"
    /\ half[d] = "send"
    /\ HalfEnds(d)

\* ------------------------------------------------ the root CA at startup
CaFiles == {"ca.crt", "ca.key"}

\* What a path of the working directory holds: nothing, bytes that are no
\* PEM, a directory (it exists but cannot be read or written as a file), or
\* the PEM of the certificate or of the key of root pair id.
File(kind, id) == [kind |-> kind, id |-> id]
Absent == File("absent", 0)
Garbage == File("garbage", 0)
Directory == File("directory", 0)
Planted == {Absent, Garbage, Directory}

\* Path::exists
exists(f) == f.kind # "absent"

\* fs::read(path) returns the bytes.
fs_read_ok(f) == f.kind \notin {"absent", "directory"}

\* fs::write(path, bytes) can replace what is there.
fs_write_ok(f) == f.kind # "directory"

\* cert.to_pem(), privkey.private_key_to_pem_pkcs8()
to_pem(id) == File("CERTIFICATE", id)
private_key_to_pem_pkcs8(id) == File("PRIVATE KEY", id)

NoId == 0
\* X509::from_pem(&cert_pem), PKey::private_key_from_pem(&key_pem): the pair
\* id of the object, NoId for an error.
X509_from_pem(f) == IF f.kind = "CERTIFICATE" THEN f.id ELSE NoId
private_key_from_pem(f) == IF f.kind = "PRIVATE KEY" THEN f.id ELSE NoId

NoRoot == [cert |-> NoId, key |-> NoId]

\* The files are never loaded.
ShouldLoadNever(d) == FALSE

\* if ca_key_path.exists() && ca_cert_path.exists()
ShouldLoad(d) == exists(d["ca.key"]) /\ exists(d["ca.crt"])

\* Only the certificate is saved.
PersistCertOnly(d, id) == [d EXCEPT !["ca.crt"] = to_pem(id)]

\* fs::write(ca_cert_path, cert.to_pem()?)?; fs::write(ca_key_path, ...)?;
Persist(d, id) ==
    [f \in CaFiles |-> IF f = "ca.crt" THEN to_pem(id) ELSE private_key_to_pem_pkcs8(id)]

\* One CertManager::new() call: the files it found, the branch it took, its
\* result, the root it returned and the files it left.
Boot(before, branch, result, rt, after) ==
    [before |-> before, branch |-> branch, result |-> result, root |-> rt, after |-> after]

\* The first start, in an empty working directory.
InitCa ==
    /\ disk = Persist([f \in CaFiles |-> Absent], 1)
    /\ root = [cert |-> 1, key |-> 1]
    /\ nextRoot = 1
    /\ boots = <<Boot([f \in CaFiles |-> Absent], "create", "ok",
                      [cert |-> 1, key |-> 1], Persist([f \in CaFiles |-> Absent], 1))>>

CreateOutcomes == {"ok", "generate_failed", "crt_write_failed", "key_write_failed"}

\* What a failed fs::write may leave of the file it opened.
AfterFailedWrite(f) == IF fs_write_ok(f) THEN {f, Garbage} ELSE {f}

\* Proxy::new() succeeded and main goes on to its accept loop, with an empty
\* leaf cache and an empty session map.
Started(rt) ==
    /\ root' = rt
    /\ accepting' = TRUE
    /\ cert_cache' = << >>
    /\ sessions' = << >>

\* `?` takes the error out of CertManager::new, Proxy::new and main.
NotStarted ==
    /\ root' = NoRoot
    /\ UNCHANGED <<accepting, cert_cache, sessions>>

\* The process is started: CertManager::new() loads the root from the two
\* files if both exist, else generates a pair and writes the two files.
CertManagerNew(outcome) ==
    /\ ~accepting
    /\ Len(boots) < MaxBoots
    /\ IF ShouldLoad(disk)
       THEN LET cert == X509_from_pem(disk["ca.crt"])
                key == private_key_from_pem(disk["ca.key"])
                ok == /\ fs_read_ok(disk["ca.crt"]) /\ fs_read_ok(disk["ca.key"])
                      /\ cert # NoId /\ key # NoId
            IN /\ outcome = "ok"
               /\ IF ok THEN Started([cert |-> cert, key |-> key]) ELSE NotStarted
               /\ boots' = Append(boots,
                                  Boot(disk, "load", IF ok THEN "ok" ELSE "err",
                                       IF ok THEN [cert |-> cert, key |-> key] ELSE NoRoot,
                                       disk))
               /\ UNCHANGED <<disk, nextRoot>>
       ELSE LET id == nextRoot + 1
            IN CASE outcome = "generate_failed" ->
                      /\ NotStarted
                      /\ boots' = Append(boots, Boot(disk, "create", "err", NoRoot, disk))
                      /\ UNCHANGED <<disk, nextRoot>>
                 [] outcome = "crt_write_failed" ->
                      /\ NotStarted
                      /\ nextRoot' = id
                      /\ \E crt \in AfterFailedWrite(disk["ca.crt"]) :
                            disk' = [disk EXCEPT !["ca.crt"] = crt]
                      /\ boots' = Append(boots, Boot(disk, "create", "err", NoRoot, disk'))
                 [] outcome = "key_write_failed" ->
                      /\ fs_write_ok(disk["ca.crt"])
                      /\ NotStarted
                      /\ nextRoot' = id
                      /\ \E key \in AfterFailedWrite(disk["ca.key"]) :
                            disk' = [PersistCertOnly(disk, id) EXCEPT !["ca.key"] = key]
                      /\ boots' = Append(boots, Boot(disk, "create", "err", NoRoot, disk'))
                 [] outcome = "ok" ->
                      /\ fs_write_ok(disk["ca.crt"]) /\ fs_write_ok(disk["ca.key"])
                      /\ Started([cert |-> id, key |-> id])
                      /\ nextRoot' = id
                      /\ disk' = Persist(disk, id)
                      /\ boots' = Append(boots,
                                         Boot(disk, "create", "ok", [cert |-> id, key |-> id],
                                              disk'))
    /\ UNCHANGED <<nextSerial, cpc, chost, cleaf, cret, evicted>>
    /\ UNCHANGED <<now, clientHeap, nextJar, jarCookies, mutex, gcWake, removedJars, doneJars>>
    /\ UNCHANGED <<reqVars, tun, wsVars>>

\* While the process is down, a file of the working directory is removed,
\* overwritten with other bytes or replaced by a directory.
FileChange(f, content) ==
    /\ ~accepting
    /\ disk[f] # content
    /\ disk' = [disk EXCEPT ![f] = content]
    /\ UNCHANGED <<root, nextRoot, boots>>
    /\ UNCHANGED <<certVars, poolVars, reqVars, tunVars, wsVars>>

\* ------------------------------------------------ the end of the process
\* listener.accept().await? fails: main returns the error, the runtime is
\* dropped and with it every connection task.
AcceptFail ==
    /\ accepting
    /\ accepting' = FALSE
    /\ rpc' = [r \in DOMAIN rpc |-> "idle"]
    /\ rreq' = [r \in DOMAIN rpc |-> NoReq]
    /\ rlocal' = [r \in DOMAIN rpc |-> NoLocal]
    /\ rclient' = [r \in DOMAIN rpc |-> NoClient]
    /\ rprior' = [r \in DOMAIN rpc |-> {}]
    /\ rout' = [r \in DOMAIN rpc |-> NoOut]
    /\ rresp' = [r \in DOMAIN rpc |-> NoResp]
    /\ rbridge' = [r \in DOMAIN rpc |-> NoBridge]
    /\ rconn' = [r \in DOMAIN rpc |-> "closed"]
    /\ tun' = [r \in DOMAIN rpc |-> NoTunnel]
    /\ mutex' = MutexFree
    /\ UNCHANGED <<now, sessions, clientHeap, nextJar, jarCookies, gcWake, removedJars,
                   doneJars, served, certVars>>
    /\ root' = NoRoot
    /\ UNCHANGED <<disk, nextRoot, boots>>
    /\ IF bstate \in {"connecting", "running"}
       THEN /\ bstate' = "dropped"
            /\ half' = [d \in Halves |-> IF half[d] = "none" THEN "none" ELSE "cancelled"]
            /\ held' = [d \in Halves |-> NoMsg]
            /\ streams' = {}
            /\ UNCHANGED <<srcLog, dstLog, ws_req>>
       ELSE UNCHANGED wsVars

\* ------------------------------------------------------ request inputs
PlainUri(h) == [scheme |-> "http", authority |-> h, path |-> "/"]
OriginUri == [scheme |-> "", authority |-> "", path |-> "/"]

Request(kind, h, method, headers, body) ==
    [kind |-> kind, host |-> h, method |-> method,
     uri |-> IF kind = "https" THEN OriginUri ELSE PlainUri(h),
     headers |-> headers, body |-> body]

\* Plain requests that differ in nothing but the host.
SessionRequests == {Request("plain", h, "GET", << >>, 0) : h \in Hosts}

UpgradeOptions ==
    { << >>,
      <<Header(<<"U", "p", "g", "r", "a", "d", "e">>, <<"w", "e", "b", "s", "o", "c", "k", "e", "t">>)>>,
      <<Header(<<"u", "p", "g", "r", "a", "d", "e">>, <<"W", "e", "b", "S", "o", "c", "k", "e", "t">>)>>,
      <<Header(<<"U", "p", "g", "r", "a", "d", "e">>, <<"h", "2", "c">>)>> }

ConnectionOptions ==
    { << >>,
      <<Header(<<"C", "o", "n", "n", "e", "c", "t", "i", "o", "n">>, <<"U", "p", "g", "r", "a", "d", "e">>)>>,
      <<Header(<<"C", "o", "n", "n", "e", "c", "t", "i", "o", "n">>, <<"k", "e", "e", "p", "-", "a", "l", "i", "v", "e", ",", " ", "U", "p", "g", "r", "a", "d", "e">>)>>,
      <<Header(<<"C", "o", "n", "n", "e", "c", "t", "i", "o", "n">>, <<"k", "e", "e", "p", "-", "a", "l", "i", "v", "e">>)>>,
      <<Header(<<"C", "o", "n", "n", "e", "c", "t", "i", "o", "n">>, <<"k", "e", "e", "p", "-", "a", "l", "i", "v", "e">>), Header(<<"C", "o", "n", "n", "e", "c", "t", "i", "o", "n">>, <<"U", "p", "g", "r", "a", "d", "e">>)>> }

KeyOptions == { << >>, <<Header(<<"S", "e", "c", "-", "W", "e", "b", "S", "o", "c", "k", "e", "t", "-", "K", "e", "y">>, <<"d", "G", "h", "l">>)>> }

VersionOptions == { << >>, <<Header(<<"s", "e", "c", "-", "w", "e", "b", "s", "o", "c", "k", "e", "t", "-", "v", "e", "r", "s", "i", "o", "n">>, <<"1", "3">>)>> }

ExtraHeaders ==
    { Header(<<"U", "s", "e", "r", "-", "A", "g", "e", "n", "t">>, <<"X">>),
      Header(<<"A", "c", "c", "e", "p", "t">>, <<"Y">>),
      Header(<<"A", "c", "c", "e", "p", "t", "-", "E", "n", "c", "o", "d", "i", "n", "g">>, <<"g", "z", "i", "p">>),
      Header(<<"a", "c", "c", "e", "p", "t", "-", "l", "a", "n", "g", "u", "a", "g", "e">>, <<"e", "n">>),
      Header(<<"H", "o", "s", "t">>, <<"a", ".", "t", "e", "s", "t">>),
      Header(<<"S", "e", "c", "-", "F", "o", "o">>, <<"Z">>),
      Header(<<"S", "E", "C", "-", "F", "E", "T", "C", "H", "-", "M", "O", "D", "E">>, <<"c", "o", "r", "s">>),
      Header(<<"s", "e", "c", "o", "n", "d">>, <<"v">>),
      Header(<<"X", "-", "S", "e", "c", "-", "Y">>, <<"v">>),
      Header(<<"X", "-", "C", "u", "s", "t", "o", "m">>, <<"W">>) }

\* Headers sent together: two named ones, a sec- one and a custom one.
AllExtras ==
    <<Header(<<"U", "s", "e", "r", "-", "A", "g", "e", "n", "t">>, <<"X">>),
      Header(<<"A", "c", "c", "e", "p", "t">>, <<"Y">>),
      Header(<<"S", "e", "c", "-", "F", "o", "o">>, <<"Z">>),
      Header(<<"X", "-", "C", "u", "s", "t", "o", "m">>, <<"W">>)>>

\* No extra header, each one alone, or the four together.
ExtraOptions == {<< >>, AllExtras} \cup {<<e>> : e \in ExtraHeaders}

FullUpgrade ==
    <<Header(<<"U", "p", "g", "r", "a", "d", "e">>, <<"w", "e", "b", "s", "o", "c", "k", "e", "t">>),
      Header(<<"C", "o", "n", "n", "e", "c", "t", "i", "o", "n">>, <<"U", "p", "g", "r", "a", "d", "e">>),
      Header(<<"S", "e", "c", "-", "W", "e", "b", "S", "o", "c", "k", "e", "t", "-", "K", "e", "y">>, <<"d", "G", "h", "l">>),
      Header(<<"s", "e", "c", "-", "w", "e", "b", "s", "o", "c", "k", "e", "t", "-", "v", "e", "r", "s", "i", "o", "n">>, <<"1", "3">>)>>

UpgradeHeaders ==
    {u \o c \o k \o v : u \in UpgradeOptions, c \in ConnectionOptions,
                        k \in KeyOptions, v \in VersionOptions}

\* Every extra-header choice without and with a full upgrade, and every
\* combination of the four upgrade headers without and with the extras.
ProxyHeaders ==
    {e \o w : e \in ExtraOptions, w \in {<< >>, FullUpgrade}}
        \cup {e \o w : e \in {<< >>, AllExtras}, w \in UpgradeHeaders}

ProxyHost == "a.test"
ProxyRequests ==
    {Request(kind, ProxyHost, "GET", hs, body) :
        kind \in {"plain", "https"}, hs \in ProxyHeaders, body \in {0, 2}}

NextCert ==
    \/ \E t \in Callers, d \in Hosts : CertLookup(t, d)
    \/ \E t \in Callers : CertSign(t)
    \/ \E t \in Callers : CertInsert(t)
    \/ \E t \in Callers : CertReturn(t)
    \/ \E d \in Hosts : CacheEvict(d)

\* Callers ask for the leaf of hosts spelled in either case.
NextCertCase ==
    \/ \E t \in Callers, d \in CertHosts : CertLookup(t, d)
    \/ \E t \in Callers : CertSign(t)
    \/ \E t \in Callers : CertInsert(t)
    \/ \E t \in Callers : CertReturn(t)

\* In-flight requests are interchangeable: a new one takes the lowest idle slot.
LowestIdle(r) == \A q \in Reqs : q < r => rpc[q] # "idle"

\* The session pool under load: requests of two connections, the clock and
\* the cleanup task.
NextSession ==
    \/ \E r \in Reqs, req \in SessionRequests : LowestIdle(r) /\ Arrive(r, req)
    \/ \E r \in Reqs : GsBuild(r)
    \/ \E r \in Reqs : CollectBody(r)
    \/ \E r \in Reqs, setc \in SUBSET Cookies : RecvResponse(r, 200, setc)
    \/ \E r \in Reqs : SendFail(r)
    \/ \E r \in Reqs : RecvBody(r)
    \/ \E r \in Reqs : Finish(r)
    \/ Tick
    \/ cleanup_sessions

\* Two callers of get_or_create_session and the cleanup task contend for the
\* sessions mutex.
NextPool ==
    \/ \E r \in Reqs, req \in SessionRequests : Arrive(r, req)
    \/ \E r \in Reqs : GsBuild(r)
    \/ \E r \in Reqs : CollectBody(r)
    \/ \E r \in Reqs : SendFail(r)
    \/ \E r \in Reqs : Finish(r)
    \/ Tick
    \/ cleanup_sessions

\* The methods a request can carry: the five the match names, three more
\* standard ones and an extension method.
Methods == {"GET", "POST", "PUT", "DELETE", "PATCH", "HEAD", "OPTIONS", "TRACE", "PURGE"}

MethodRequests ==
    {Request(kind, ProxyHost, method, << >>, body) :
        kind \in {"plain", "https"}, method \in Methods, body \in {0, 2}}

\* Requests of every method before and inside a tunnel.
NextMethod ==
    \/ Connect(1, ProxyHost)
    \/ TunnelUpgrade(1)
    \/ Handshake(1, {"http/1.1"})
    \/ \E req \in MethodRequests : served < MaxProxyRequests /\ Arrive(1, req)
    \/ GsBuild(1)
    \/ CollectBody(1)
    \/ \E status \in UpStatuses : RecvResponse(1, status, {})
    \/ RecvBody(1)
    \/ Finish(1)

\* Tunnels to either host on either port, and the requests inside them.
NextTarget ==
    \/ \E h \in Hosts, port \in ConnectPorts : ConnectAt(1, h, port)
    \/ TunnelUpgrade(1)
    \/ Handshake(1, {"http/1.1"})
    \/ \E h \in Hosts, body \in {0, 2} :
          served < MaxProxyRequests /\ Arrive(1, Request("https", h, "GET", << >>, body))
    \/ GsBuild(1)
    \/ CollectBody(1)
    \/ \E status \in UpStatuses : RecvResponse(1, status, {})
    \/ RecvBody(1)
    \/ Finish(1)
    \/ ConnClose(1)
    \/ Accept(1)

\* One connection at a time, every shape of request and every failure.
NextProxy ==
    \/ Connect(1, ProxyHost)
    \/ TunnelUpgrade(1)
    \/ Handshake(1, {"http/1.1"})
    \/ \E req \in ProxyRequests : served < MaxProxyRequests /\ Arrive(1, req)
    \/ GsBuild(1)
    \/ CollectBody(1)
    \/ CollectFail(1)
    \/ \E status \in UpStatuses, setc \in SUBSET Cookies : RecvResponse(1, status, setc)
    \/ SendFail(1)
    \/ RecvBody(1)
    \/ ReadFail(1)
    \/ WsGet(1)
    \/ Finish(1)
    \/ BridgeEnd(1)
    \/ ConnClose(1)
    \/ Accept(1)

\* What a TLS client may offer as its ALPN list, and the requests sent on
\* one connection before and after a CONNECT.
AlpnOffers == SUBSET AlpnProtocols
TunnelRequests ==
    {Request(kind, ProxyHost, "GET", hs, 0) :
        kind \in {"plain", "https"}, hs \in {<< >>, FullUpgrade}}

\* One connection: CONNECT to either host with every way it can fail, the
\* requests before and inside the tunnel with every way they can fail, the
\* clock and the cleanup task, and the failure of accept.
NextTunnel ==
    \/ \E h \in Hosts : Connect(1, h)
    \/ \E h \in Hosts : ConnectFail(1, h)
    \/ TunnelUpgrade(1)
    \/ TunnelUpgradeFail(1)
    \/ \E offered \in AlpnOffers : Handshake(1, offered)
    \/ HandshakeFail(1)
    \/ \E method \in {"CONNECT", "GET"} : NoAuthority(1, method)
    \/ \E req \in TunnelRequests : served < MaxProxyRequests /\ Arrive(1, req)
    \/ GsBuild(1)
    \/ CollectBody(1)
    \/ CollectFail(1)
    \/ \E setc \in SUBSET Cookies : RecvResponse(1, 200, setc)
    \/ SendFail(1)
    \/ RecvBody(1)
    \/ ReadFail(1)
    \/ WsGet(1)
    \/ Finish(1)
    \/ BridgeSpawn(1)
    \/ BridgeConnectFail
    \/ BridgeEnd(1)
    \/ ConnClose(1)
    \/ Accept(1)
    \/ AcceptFail
    \/ Tick
    \/ cleanup_sessions

\* What the two sides send on one bridge: data, control and close messages,
\* a close without a frame, a close code outside the standard set, a raw
\* frame and a failed read.
BridgeItems ==
    {Msg("rquest", "Text", "a", "", None), Msg("rquest", "Text", "b", "", None),
     Msg("rquest", "Ping", "a", "", None), Msg("rquest", "Close", "", "Away", "bye"),
     Msg("rquest", "Close", "", "Tls", None), ReadErr("rquest"),
     Msg("tungstenite", "Text", "a", "", None), Msg("tungstenite", "Text", "b", "", None),
     Msg("tungstenite", "Pong", "a", "", None), Msg("tungstenite", "Close", "", None, None),
     Msg("tungstenite", "Close", "", "Policy", "bye"),
     Msg("tungstenite", "Frame", "a", "", None), ReadErr("tungstenite")}

\* Every item either side can yield.
CodecItems == RqMessages \cup TgMessages \cup {ReadErr("rquest"), ReadErr("tungstenite")}

\* The upgrade request of the bridge: an inner GET with the four upgrade
\* headers.
UpgradeRequest == Request("https", ProxyHost, "GET", FullUpgrade, 0)

\* One upgrade request through its tunnel, and its bridge from its spawn to
\* its return, up to MaxMsgs items read in each direction.
NextBridge ==
    \/ Connect(1, ProxyHost)
    \/ TunnelUpgrade(1)
    \/ Handshake(1, {"http/1.1"})
    \/ served < 1 /\ Arrive(1, UpgradeRequest)
    \/ GsBuild(1)
    \/ WsGet(1)
    \/ Finish(1)
    \/ BridgeSpawn(1)
    \/ BridgeEnd(1)
    \/ BridgeConnect
    \/ BridgeConnectFail
    \/ \E d \in Halves, msg \in BridgeItems : Read(d, msg)
    \/ \E d \in Halves : Send(d)
    \/ \E d \in Halves : ReadEnd(d)
    \/ \E d \in Halves : BridgeSendFail(d)

\* One bridge translating one item, any item of either side.
NextCodec ==
    \/ Connect(1, ProxyHost)
    \/ TunnelUpgrade(1)
    \/ Handshake(1, {"http/1.1"})
    \/ served < 1 /\ Arrive(1, UpgradeRequest)
    \/ GsBuild(1)
    \/ WsGet(1)
    \/ Finish(1)
    \/ BridgeSpawn(1)
    \/ BridgeConnect
    \/ \E d \in Halves, msg \in CodecItems :
          (\A h \in Halves : srcLog[h] = << >>) /\ Read(d, msg)
    \/ \E d \in Halves : Send(d)

\* The process is stopped and started again, up to MaxBoots starts in all,
\* with every outcome of a start and every change to the two files between
\* starts.
NextInit ==
    \/ AcceptFail
    \/ \E outcome \in CreateOutcomes : CertManagerNew(outcome)
    \/ \E f \in CaFiles, content \in Planted : FileChange(f, content)

\* Requests of one connection come and go while the clock runs on for
\* MaxAdvances half periods and the cleanup task runs at the end of each of
\* its sleeps.
NextGc ==
    \/ Advance
    \/ cleanup_sessions
    \/ \E req \in SessionRequests : Arrive(1, req)
    \/ GsBuild(1)
    \/ CollectBody(1)
    \/ SendFail(1)
    \/ Finish(1)

Init == InitCert /\ InitPool /\ InitReq /\ InitTunnel /\ InitBridge /\ InitCa

SpecCert == Init /\ [][NextCert]_vars

SpecSession == Init /\ [][NextSession]_vars

SpecProxy == Init /\ [][NextProxy]_vars

SpecTunnel == Init /\ [][NextTunnel]_vars

SpecBridge == Init /\ [][NextBridge]_vars

SpecInit == Init /\ [][NextInit]_vars

SpecTarget == Init /\ [][NextTarget]_vars

SpecMethod == Init /\ [][NextMethod]_vars

\* Synchronous code runs on: a call that holds the mutex reaches its return.
SpecPool == Init /\ [][NextPool]_vars /\ \A r \in Reqs : WF_vars(GsBuild(r))

SpecCertCase == Init /\ [][NextCertCase]_vars

SpecGc == Init /\ [][NextGc]_vars

SpecCodec == Init /\ [][NextCodec]_vars

\* The bridge with its sends resolving: write.send(msg).await of either half
\* returns, with Ok or with Err, once the half has reached it.
SpecBridgeLive ==
    /\ Init
    /\ [][NextBridge]_vars
    /\ \A d \in Halves : WF_vars(Send(d) \/ BridgeSendFail(d))

\* ------------------------------------------------ CertManager properties
\* No get_or_create_cert(h) call is between its cache miss and its return.
Quiescent(h) == \A t \in Callers : ~(chost[t] = h /\ cpc[t] \in {"sign", "insert"})

Returned(t, h) == cpc[t] = "done" /\ chost[t] = h /\ cret[t] # ErrLeaf

\* C1: mint deduplication. For every host h whose entry was never evicted,
\* all get_or_create_cert(h) calls that missed the (empty) cache and have
\* returned hold the same (chain, key), and h has a cache entry.
C1_MintDeduplication ==
    \A h \in Hosts \ evicted :
        \A t1 \in Callers, t2 \in Callers :
            (Returned(t1, h) /\ Returned(t2, h) /\ cleaf[t1] # NoLeaf /\ cleaf[t2] # NoLeaf)
                => (cret[t1] = cret[t2] /\ h \in DOMAIN cert_cache)

\* C2: mint convergence. Once every get_or_create_cert(h) call that missed
\* has returned and the cache holds a value for h, then, as long as the entry
\* is not evicted, every step leaves that value in place, and a call for h
\* that starts now returns exactly that value at once, signs no leaf, and
\* leaves the cache quiescent for h.
C2_MintConvergence ==
    [][\A h \in Hosts :
          (Quiescent(h) /\ h \in DOMAIN cert_cache /\ h \in DOMAIN cert_cache')
              => /\ cert_cache'[h] = cert_cache[h]
                 /\ Quiescent(h)'
                 /\ \A t \in Callers :
                       (cpc[t] = "idle" /\ cpc'[t] # "idle" /\ chost'[t] = h)
                           => /\ cpc'[t] = "done"
                              /\ cret'[t] = cert_cache[h]
                              /\ cleaf'[t] = NoLeaf
                              /\ nextSerial' = nextSerial]_vars

\* Two racing calls for one host have both signed and returned (different
\* leaves), and a third, later call has returned the cached value unsigned.
C2_Witness ==
    \E h \in Hosts \ evicted : \E t1 \in Callers, t2 \in Callers, t3 \in Callers :
        /\ Returned(t1, h) /\ Returned(t2, h) /\ Returned(t3, h)
        /\ cleaf[t1] # NoLeaf /\ cleaf[t2] # NoLeaf /\ cleaf[t1] # cleaf[t2]
        /\ cleaf[t3] = NoLeaf
        /\ h \in DOMAIN cert_cache /\ cret[t3] = cert_cache[h]

\* --------------------------------------------- SessionManager properties
\* The step in which get_or_create_session returns a client to request r.
AcquireReturns(r) == rpc[r] = "gs_build" /\ rclient'[r] # NoClient

\* The step in which request r is put on the wire.
Sends(r) == rpc[r] = "collect" /\ rpc'[r] = "await"

\* The step in which the cleanup task runs cleanup_sessions.
CleanupRuns == gcWake' # gcWake

\* C3, as stated: whenever get_or_create_session(H) returns a client to a
\* request that started after earlier requests to H had completed, that client
\* is bound to the cookie jar of every one of those earlier requests,
\* whatever ran in between.
C3_CookieContinuity ==
    [][\A r \in Reqs :
          AcquireReturns(r)
              => \A J \in rprior[r] : clientHeap'[rclient'[r]].jar = J]_vars

\* C3, amended: whenever get_or_create_session(H) returns a client to a
\* request that started after an earlier request to H had completed, that
\* client is bound to the earlier request's cookie jar, whatever profiles
\* were rolled, provided cleanup_sessions has not removed the entry holding
\* that jar; cookie jars only grow, and a request is sent with the cookies
\* its client's jar holds at that moment.
C3_CookieContinuityUnlessRemoved ==
    [][/\ \A r \in Reqs :
             AcquireReturns(r)
                 => \A J \in rprior[r] \ removedJars : clientHeap'[rclient'[r]].jar = J
       /\ \A r \in Reqs :
             Sends(r) => rout'[r].cookies = jarCookies[clientHeap[rclient[r]].jar]
       /\ \A j \in JarIds : jarCookies[j] \subseteq jarCookies'[j]]_vars

\* A request has been sent with the cookie an earlier, completed request to
\* the same host had stored, under a different profile than that earlier
\* request's, after cleanup_sessions had removed another entry.
C3_Witness ==
    \E r \in Reqs :
        /\ rpc[r] = "await"
        /\ rout[r].cookies = Cookies
        /\ ClientJar(rclient[r]) \in doneJars[rreq[r].host]
        /\ removedJars # {}
        /\ \E c \in 1..Len(clientHeap) :
              /\ c # rclient[r]
              /\ clientHeap[c].jar = ClientJar(rclient[r])
              /\ clientHeap[c].profile # ClientProfile(rclient[r])

\* C4: when get_or_create_session(H) finds an entry and returns a client,
\* the entry keeps its cookie jar, the stored client is a newly built one
\* bound to that jar with the newly rolled profile (the client stored before
\* is left as it was), the stored profile is the new one, last_used is now,
\* and the entries of all other hosts are unchanged.
C4_RotateExistingFrame ==
    [][\A r \in Reqs :
          (AcquireReturns(r) /\ rlocal[r].found)
              => LET h == rreq[r].host
                     c == rclient'[r]
                 IN /\ DOMAIN sessions' = DOMAIN sessions
                    /\ sessions'[h].cookie_jar = sessions[h].cookie_jar
                    /\ sessions'[h].client = c
                    /\ c \notin 1..Len(clientHeap)
                    /\ clientHeap'[c] = [profile |-> rlocal[r].new_profile,
                                         jar |-> sessions[h].cookie_jar]
                    /\ \A i \in 1..Len(clientHeap) : clientHeap'[i] = clientHeap[i]
                    /\ sessions'[h].profile = rlocal[r].new_profile
                    /\ sessions'[h].last_used = now
                    /\ \A k \in DOMAIN sessions \ {h} : sessions'[k] = sessions[k]]_vars

\* A request holds the client a rotation has just stored for its host, at a
\* later instant than the entry was created, with a profile other than the
\* one of an earlier client on the same jar, while another host has an entry.
C4_Witness ==
    \E h \in DOMAIN sessions, k \in DOMAIN sessions, r \in Reqs :
        /\ k # h
        /\ rpc[r] = "collect" /\ rreq[r].host = h /\ rclient[r] = sessions[h].client
        /\ sessions[h].last_used = now /\ now > 0
        /\ sessions[k].last_used < now
        /\ \E c \in 1..Len(clientHeap) :
              /\ c < sessions[h].client
              /\ clientHeap[c].jar = sessions[h].cookie_jar
              /\ clientHeap[c].profile # sessions[h].profile

\* C5: cleanup_sessions removes exactly the entries with
\* now - last_used >= 30 minutes and keeps every entry with
\* now - last_used < 30 minutes, its client, profile, jar and last_used
\* unchanged.
C5_CleanupExact ==
    [][CleanupRuns
          => /\ DOMAIN sessions \ DOMAIN sessions' =
                    {k \in DOMAIN sessions : now - sessions[k].last_used >= 30 * 60}
             /\ DOMAIN sessions' =
                    {k \in DOMAIN sessions : now - sessions[k].last_used < 30 * 60}
             /\ \A k \in DOMAIN sessions' : sessions'[k] = sessions[k]
             /\ clientHeap' = clientHeap
             /\ jarCookies' = jarCookies]_vars

\* cleanup_sessions has just run 30 minutes after start: it has removed an
\* entry idle for exactly 30 minutes and kept a younger, idle one.
C5_Witness ==
    /\ now = 30 * 60
    /\ gcWake = now + GcPeriodSecs
    /\ removedJars # {}
    /\ \E k \in DOMAIN sessions :
          /\ 0 < now - sessions[k].last_used
          /\ now - sessions[k].last_used < 30 * 60

\* C6: whenever get_or_create_session(H) returns a client, however the call
\* interleaves with cleanup_sessions, the client is the one stored in H's
\* entry and is bound to that entry's jar, which no removed entry held:
\* either the entry was still present, and then its jar is kept and it is
\* refreshed so that a cleanup at this instant keeps it, or there was none,
\* and then the jar is a new one.
C6_AcquireNeverRemovedJar ==
    [][\A r \in Reqs :
          AcquireReturns(r)
              => LET h == rreq[r].host
                     c == rclient'[r]
                 IN /\ clientHeap'[c].jar \notin removedJars'
                    /\ h \in DOMAIN sessions'
                    /\ sessions'[h].client = c
                    /\ sessions'[h].cookie_jar = clientHeap'[c].jar
                    /\ now - sessions'[h].last_used < 30 * 60
                    /\ IF h \in DOMAIN sessions
                       THEN clientHeap'[c].jar = sessions[h].cookie_jar
                       ELSE clientHeap'[c].jar \notin 1..nextJar]_vars

\* At the 30-minute boundary cleanup_sessions has removed the entry of a
\* host, and a request to that host has then been given a client on a new
\* jar.
C6_Witness ==
    \E r \in Reqs :
        /\ now = 30 * 60
        /\ rpc[r] = "collect"
        /\ doneJars[rreq[r].host] \cap removedJars # {}
        /\ ClientJar(rclient[r]) \notin removedJars
        /\ sessions[rreq[r].host].client = rclient[r]
        /\ sessions[rreq[r].host].last_used = now

\* C7: the client a request holds keeps the profile and the jar it was built
\* with, whatever get_or_create_session and cleanup_sessions do meanwhile,
\* and the request is sent with the profile rolled for it.
C7_SnapshotHandles ==
    [][\A r \in Reqs :
          /\ (rclient[r] # NoClient /\ rclient'[r] = rclient[r])
                 => clientHeap'[rclient[r]] = clientHeap[rclient[r]]
          /\ Sends(r) => rout'[r].profile = rlocal[r].new_profile]_vars

\* A request is in flight on its client while a later request to the same
\* host has replaced the stored client by one with another profile.
C7_Witness ==
    \E r \in Reqs, q \in Reqs :
        /\ r # q
        /\ rpc[r] = "await" /\ rpc[q] = "await"
        /\ rreq[r].host = rreq[q].host
        /\ rclient[r] < rclient[q]
        /\ sessions[rreq[r].host].client = rclient[q]
        /\ rout[r].profile # rout[q].profile
        /\ rout[r].profile = ClientProfile(rclient[r])

\* ------------------------------------------------- forwarding properties
\* C8: whenever the outbound send of a forwarded request fails, the client
\* gets a response with status 502 whose body contains the error text, and
\* its connection stays open for further requests.
C8_UpstreamFailureBadGateway ==
    [][\A r \in Reqs :
          (rpc[r] = "await" /\ rpc'[r] = "done")
              => /\ rresp'[r].status = 502
                 /\ \E e \in SendErrors, i \in DOMAIN rresp'[r].body : rresp'[r].body[i] = e
                 /\ rconn'[r] = "open"]_vars

\* The header names C9 excepts, on lowercased names.
C9_Excepted(name) ==
    \/ name \in {<<"u", "s", "e", "r", "-", "a", "g", "e", "n", "t">>,
                 <<"a", "c", "c", "e", "p", "t">>,
                 <<"a", "c", "c", "e", "p", "t", "-", "e", "n", "c", "o", "d", "i", "n", "g">>,
                 <<"a", "c", "c", "e", "p", "t", "-", "l", "a", "n", "g", "u", "a", "g", "e">>,
                 <<"h", "o", "s", "t">>}
    \/ (Len(name) >= 4 /\ SubSeq(name, 1, 4) = <<"s", "e", "c", "-">>)

\* The inbound headers C9 wants carried, in their order.
C9_Carried(headers) == SelectSeq(headers, LAMBDA h : ~C9_Excepted(to_lowercase(h.name)))

\* C9: the outbound request of every forwarded (non-WebSocket) request, on
\* the intercepted-HTTPS path and on the plain-HTTP path, carries exactly the
\* inbound headers other than User-Agent, Accept, Accept-Encoding,
\* Accept-Language, Host and those whose lowercased name starts with "sec-",
\* followed, once a non-empty body is attached, by its Content-Length.
C9_HeaderFiltering ==
    \A r \in Reqs :
        rpc[r] \in {"collect", "await", "recv"}
            => rout[r].headers =
                   C9_Carried(rreq[r].headers)
                       \o (IF rout[r].sent /\ rreq[r].body > 0
                           THEN <<[name |-> CONTENT_LENGTH, value |-> <<rreq[r].body>>]>>
                           ELSE << >>)

\* An intercepted request with User-Agent, Accept, Sec-Foo and X-Custom is on
\* the wire: X-Custom is carried, the other three are not.
C9_Witness ==
    \E r \in Reqs :
        /\ rpc[r] = "await"
        /\ rreq[r].kind = "https"
        /\ rreq[r].headers = AllExtras
        /\ rout[r].headers = <<AllExtras[4]>>

\* The four conditions of C10 on the inbound headers (the first value of a
\* repeated header counts).
C10_Four(headers) ==
    /\ \E i \in 1..Len(headers) :
          /\ headers[i].name = <<"u", "p", "g", "r", "a", "d", "e">>
          /\ \A j \in 1..(i - 1) : headers[j].name # headers[i].name
          /\ to_lowercase(headers[i].value) = <<"w", "e", "b", "s", "o", "c", "k", "e", "t">>
    /\ \E i \in 1..Len(headers) :
          /\ headers[i].name = <<"c", "o", "n", "n", "e", "c", "t", "i", "o", "n">>
          /\ \A j \in 1..(i - 1) : headers[j].name # headers[i].name
          /\ \E k \in 1..Len(headers[i].value) :
                k + 6 <= Len(headers[i].value)
                /\ to_lowercase(SubSeq(headers[i].value, k, k + 6))
                       = <<"u", "p", "g", "r", "a", "d", "e">>
    /\ \E i \in 1..Len(headers) : headers[i].name = to_lowercase(SecWebSocketKey)
    /\ \E i \in 1..Len(headers) : headers[i].name = to_lowercase(SecWebSocketVersion)

C11_PlainUpgradeLikeTunnel ==
    [][\A r \in Reqs :
          (rreq[r].kind = "plain" /\ C10_Four(rreq[r].headers))
              => /\ AcquireReturns(r) => rpc'[r] = "ws_get"
                 /\ (rpc[r] \in {"ws_get", "recv"} /\ rpc'[r] = "done"
                         /\ rresp'[r].status # 500)
                        => (rresp'[r].status = 101 /\ rbridge'[r].spawned)]_vars

\* ------------------------------------------------------ tunnel properties
TunnelOrder == <<"mint", "200", "handshake">>

\* C12: tunnel ordering. The 200 of a CONNECT is returned only with the leaf
\* of its host minted and cached; the TLS handshake starts only when the 200
\* has been written; the tunnel serves only after its handshake; and an
\* inner request is dispatched only on a tunnel whose events were, in this
\* order, mint, 200, handshake.
C12_TunnelOrdering ==
    [][\A r \in Reqs :
          /\ (rpc[r] # "tunnel_200" /\ rpc'[r] = "tunnel_200")
                => /\ rreq'[r].host \in DOMAIN cert_cache'
                   /\ rresp'[r] = TunnelResponse
                   /\ tun'[r].events = SubSeq(TunnelOrder, 1, 1)
          /\ (tun[r].state # "handshake" /\ tun'[r].state = "handshake")
                => /\ rpc[r] = "tunnel_200"
                   /\ rresp[r].status = 200
                   /\ tun'[r].events = SubSeq(TunnelOrder, 1, 2)
          /\ (tun[r].state # "serving" /\ tun'[r].state = "serving")
                => /\ tun[r].state = "handshake"
                   /\ tun'[r].events = TunnelOrder
          /\ (rreq'[r].kind = "https" /\ rpc[r] = "idle" /\ rpc'[r] # "idle")
                => /\ tun[r].state = "serving"
                   /\ tun[r].events = TunnelOrder
                   /\ tun[r].host = rreq'[r].host]_vars

\* An inner request of a tunnel has been answered by the upstream.
C12_Witness ==
    \E r \in Reqs :
        /\ rpc[r] = "done"
        /\ rreq[r].kind = "https"
        /\ rresp[r].status = 200
        /\ tun[r].events = TunnelOrder
        /\ tun[r].host \in DOMAIN cert_cache

\* The step in which a CONNECT on connection r ends with a mint error.
MintFails(r) ==
    /\ rpc[r] = "idle"
    /\ rpc'[r] = "done"
    /\ rreq'[r].kind = "connect"
    /\ \E e \in MintErrors : rresp'[r] = MainErrorArm(e)

\* C13: when the mint fails while a CONNECT is handled, no tunnel is set up
\* and the client connection is closed, so that no further request is served
\* on it.
C13_MintFailureCloses ==
    [][\A r \in Reqs :
          MintFails(r) => (tun'[r] = NoTunnel /\ rconn'[r] = "closed")]_vars

\* C14: the accept loop never terminates, whatever fails: a failed accept, a
\* mint, a TLS handshake, an upstream request, a bridge or a connection.
C14_AcceptLoopNeverTerminates == accepting

\* The step in which request r, holding its client, ends with the error of a
\* failed body collection, send, response read or WebSocket pre-GET.
RequestFails(r) ==
    /\ rpc[r] \in {"collect", "await", "recv", "ws_get"}
    /\ rpc'[r] = "done"
    /\ \E e \in CollectErrors \cup SendErrors \cup ReadErrors :
          rresp'[r] = ErrorResponse(rreq[r].kind, e)

\* C15: a failed request never evicts the session of its host: the step in
\* which it fails leaves the session map, entry for entry, and every cookie
\* jar as they were; and an entry leaves the map only in a step of
\* cleanup_sessions.
C15_FailureKeepsSession ==
    [][/\ \A r \in Reqs :
             RequestFails(r) => (sessions' = sessions /\ jarCookies' = jarCookies)
       /\ (\E h \in DOMAIN sessions : h \notin DOMAIN sessions') => CleanupRuns]_vars

\* The pre-GET of an inner WebSocket upgrade failed while the session of its
\* host is in the map, bound to the jar of the client the request was given.
C15_Witness ==
    \E r \in Reqs :
        /\ rpc[r] = "done"
        /\ rreq[r].kind = "https"
        /\ C10_Four(rreq[r].headers)
        /\ rresp[r].status = 500
        /\ rclient[r] # NoClient
        /\ rreq[r].host \in DOMAIN sessions
        /\ sessions[rreq[r].host].cookie_jar = ClientJar(rclient[r])

\* C16: ALPN dispatch. The decrypted stream of a tunnel is served by the
\* HTTP/2 server if and only if the negotiated protocol is "h2", and by the
\* HTTP/1.1 server with upgrades otherwise, for every protocol that could
\* be negotiated and in every tunnel that serves.
C16_AlpnDispatch ==
    /\ \A alpn \in AlpnProtocols \cup {NoAlpn} :
          /\ ServerFor(alpn) = "http2" <=> alpn = "h2"
          /\ alpn # "h2" => ServerFor(alpn) = "http1_with_upgrades"
    /\ \A r \in Reqs :
          TunnelServing(tun[r])
              => /\ tun[r].alpn = Negotiate(tun[r].offered)
                 /\ tun[r].server = "http2" <=> tun[r].alpn = "h2"
                 /\ tun[r].alpn # "h2" => tun[r].server = "http1_with_upgrades"

\* A tunnel serves a client that offered both "h2" and "http/1.1".
C16_Witness ==
    \E r \in Reqs :
        /\ TunnelServing(tun[r])
        /\ tun[r].offered = AlpnProtocols
        /\ tun[r].alpn = "http/1.1"
        /\ tun[r].server = "http1_with_upgrades"

\* ------------------------------------------------------ bridge properties
\* What half d made of the first item it read: the message it is sending or
\* has written, NoMsg if there is none.
Forwarded(d) ==
    IF half[d] = "send" THEN held[d]
    ELSE IF dstLog[d] # << >> THEN dstLog[d][1]
    ELSE NoMsg

\* The text of a close reason, absent or present.
ReasonText(reason) == IF reason = None THEN "" ELSE reason

\* The close code of the other side: the same name for a standard code,
\* Normal for every other code and for a close without a frame.
FoldCode(code) == IF code \in StandardCodes THEN code ELSE "Normal"

\* C17: kind translation. In both directions a Text, Binary, Ping, Pong or
\* Close read from one side goes to the other side as a message of the other
\* library with the same kind and the same data (for a Close: the same
\* reason text and the code of C18); only an item with no counterpart (a raw
\* frame, a failed read) is dropped, and the half that dropped it is still
\* reading on a running bridge.
C17_KindTranslation ==
    \A d \in Halves :
        srcLog[d] # << >>
            => LET msg == srcLog[d][1]
                   out == Forwarded(d)
               IN IF msg.kind \in DataKinds \cup {"Close"}
                  THEN /\ out.lib = SourceLib(Sibling(d))
                       /\ out.kind = msg.kind
                       /\ out.data = msg.data
                       /\ msg.kind = "Close"
                              => /\ ReasonText(out.reason) = ReasonText(msg.reason)
                                 /\ out.code = FoldCode(msg.code)
                  ELSE /\ out = NoMsg
                       /\ half[d] = "read"
                       /\ bstate = "running"

\* A Pong of the upstream has been written to the client as a Pong with the
\* same data, and the half is reading again.
C17_Witness ==
    /\ srcLog["client_to_server"] = <<Msg("rquest", "Pong", "b", "", None)>>
    /\ dstLog["client_to_server"] = <<Msg("tungstenite", "Pong", "b", "", None)>>
    /\ half["client_to_server"] = "read"

\* C18: close-code translation. In both directions a Close with a standard
\* code goes out with the same-named code and any other code as Normal, the
\* reason text unchanged; and translating the result back gives the original
\* code whenever that was a standard one.
C18_CloseCodeTranslation ==
    \A d \in Halves :
        (srcLog[d] # << >> /\ srcLog[d][1].kind = "Close" /\ srcLog[d][1].code # None)
            => LET msg == srcLog[d][1]
                   out == Forwarded(d)
                   back == Translate(Sibling(d), out)
               IN /\ out.kind = "Close"
                  /\ msg.code \in StandardCodes => out.code = msg.code
                  /\ msg.code \notin StandardCodes => out.code = "Normal"
                  /\ ReasonText(out.reason) = ReasonText(msg.reason)
                  /\ msg.code \in StandardCodes
                         => (back.kind = "Close" /\ back.code = msg.code
                                 /\ ReasonText(back.reason) = ReasonText(msg.reason))

\* The upstream's Close with code Again has been written to the client with
\* code Again and its reason.
C18_Witness ==
    /\ srcLog["client_to_server"] = <<Msg("rquest", "Close", "", "Again", "bye")>>
    /\ dstLog["client_to_server"] = <<Msg("tungstenite", "Close", "", "Again", "bye")>>

RECURSIVE Image(_, _)
\* The translations, in order, of the items of log that half d forwards.
Image(d, log) ==
    IF log = << >> THEN << >>
    ELSE (IF Translate(d, Head(log)) = NoMsg THEN << >> ELSE <<Translate(d, Head(log))>>)
         \o Image(d, Tail(log))

\* C19: ordering. In each direction the messages written are, in order and
\* one for one, the translations of the forwarded items read so far, but for
\* the last one while it is being sent or if its send failed or was
\* cancelled: nothing is written twice, out of order, or before an earlier
\* forwarded message of the direction.
C19_OrderPreserved ==
    \A d \in Halves :
        LET img == Image(d, srcLog[d])
            n == Len(dstLog[d])
        IN /\ n <= Len(img)
           /\ Len(img) <= n + 1
           /\ dstLog[d] = SubSeq(img, 1, n)
           /\ half[d] = "send" => (Len(img) = n + 1 /\ held[d] = img[n + 1])
           /\ half[d] = "read" => Len(img) = n

\* Two different messages of the upstream have been written to the client in
\* the order read, while the client's side had a raw frame dropped before a
\* message was forwarded.
C19_Witness ==
    /\ srcLog["client_to_server"]
           = <<Msg("rquest", "Text", "a", "", None), Msg("rquest", "Text", "b", "", None)>>
    /\ dstLog["client_to_server"]
           = <<Msg("tungstenite", "Text", "a", "", None),
               Msg("tungstenite", "Text", "b", "", None)>>
    /\ srcLog["server_to_client"]
           = <<Msg("tungstenite", "Frame", "a", "", None),
               Msg("tungstenite", "Pong", "a", "", None)>>
    /\ dstLog["server_to_client"] = <<Msg("rquest", "Pong", "a", "", None)>>

\* C20: sibling cancellation. In the step in which either half ends, the
\* other half is cancelled, whatever it held is dropped unwritten, nothing is
\* written, handle_websocket_upgrade returns and both streams are released;
\* once it has returned no half reads or writes again.
C20_SiblingCancelled ==
    [][/\ \A d \in Halves :
             (half[d] # "ended" /\ half'[d] = "ended")
                 => /\ half'[Sibling(d)] = "cancelled"
                    /\ held'[Sibling(d)] = NoMsg
                    /\ dstLog' = dstLog
                    /\ bstate' = "returned"
                    /\ streams' = {}
       /\ bstate = "returned" => (half' = half /\ srcLog' = srcLog /\ dstLog' = dstLog)
       /\ (bstate = "running" /\ bstate' # "running")
              => \E d \in Halves : half'[d] = "ended"]_vars

\* The client's side ended while the other half was sending a message it had
\* read from the upstream: that message was never written.
C20_Witness ==
    /\ bstate = "returned"
    /\ half["server_to_client"] = "ended"
    /\ half["client_to_server"] = "cancelled"
    /\ srcLog["client_to_server"] = <<Msg("rquest", "Text", "a", "", None)>>
    /\ dstLog["client_to_server"] = << >>
    /\ streams = {}

\* The last item half d has read is a Close or a failed read.
ReadCloseOrErr(d) ==
    /\ srcLog[d] # << >>
    /\ srcLog[d][Len(srcLog[d])].kind \in {"Close", "Err"}

\* C21: half termination. A half that has read a failed read, or has read a
\* Close, reads nothing more and, the Close once written, writes nothing
\* more.
C21_HalfStopsAfterCloseOrErr ==
    [][\A d \in Halves :
          ReadCloseOrErr(d)
              => /\ srcLog'[d] = srcLog[d]
                 /\ half[d] = "read" => dstLog'[d] = dstLog[d]]_vars

\* What an echoing upstream makes of a message of the client: the message
\* goes upstream and its echo comes back through the other half.
Echoed(msg) == RqToTungstenite(TungsteniteToRq(msg))

\* C22: delivery. A Text, Binary, Ping, Pong or Close that a half has read
\* and is sending is eventually written, everything read before it being
\* written too, unless the bridge ends first; and what comes back from an
\* echoing upstream for a client Text, Binary or Close(Normal, "bye") is
\* the message itself.
C22_Delivery ==
    /\ \A d \in Halves :
          [](half[d] = "send"
                => <>(\/ bstate # "running"
                      \/ half[d] = "read" /\ dstLog[d] = Image(d, srcLog[d])))
    /\ [](\A msg \in TgMessages :
             (msg.kind \in {"Text", "Binary"}
                  \/ (msg.kind = "Close" /\ msg.code = "Normal" /\ msg.reason = "bye"))
                 => Echoed(msg) = msg)

\* The client's Close(Policy, "bye") has been written to the upstream after
\* its Text, on a bridge that is still running.
C22_Witness ==
    /\ bstate = "running"
    /\ srcLog["server_to_client"]
           = <<Msg("tungstenite", "Text", "a", "", None),
               Msg("tungstenite", "Close", "", "Policy", "bye")>>
    /\ dstLog["server_to_client"]
           = <<Msg("rquest", "Text", "a", "", None),
               Msg("rquest", "Close", "", "Policy", "bye")>>

\* The 101 of slot r has been written: the slot answered an upgrade, its
\* handler has returned and the response has left.
Sent101(r) == rbridge[r].spawned /\ rconn[r] = "upgraded" /\ rpc[r] = "idle"

\* C23: the bridge starts only after the 101 has been written:
\* handle_websocket_upgrade is entered, and a frame is read or written, only
\* when the 101 of an upgrade request has been sent; when the connection
\* upgrade fails the spawned task ends without entering the bridge.
C23_BridgeAfter101 ==
    [][/\ (bstate = "none" /\ bstate' # "none") =>
            \E r \in Reqs : Sent101(r) /\ bstate' = "connecting"
       /\ (srcLog' # srcLog \/ dstLog' # dstLog \/ held' # held) =>
            bstate = "running" /\ \E r \in Reqs : Sent101(r)
       /\ \A r \in Reqs :
            (bstate = "none" /\ Sent101(r) /\ rconn'[r] = "closed") =>
                bstate' = "none" /\ ~rbridge'[r].spawned]_vars

C23_Witness ==
    /\ bstate = "running"
    /\ \E d \in Halves : dstLog[d] # << >>
    /\ \E r \in Reqs : Sent101(r)

\* C24: the headers attached to the upstream WebSocket handshake are the
\* headers of the upgrade request filtered by the rule of ordinary
\* forwarding: User-Agent, Accept, Accept-Encoding, Accept-Language, Host and
\* every header whose lowercased name starts with "sec-" are left out, every
\* other header is attached in order.
C24_WsHeaderFiltering ==
    [][(bstate = "none" /\ bstate' = "connecting") =>
          \E r \in Reqs :
             /\ Sent101(r)
             /\ ws_req'.headers = CopyHeaders("https", rbridge[r].headers)]_vars

\* C25: before the 101 is returned one GET is sent to the requested url
\* with the client the request acquired; the upstream WebSocket handshake is
\* then issued against the url of that GET's final response (the requested
\* url when nothing redirected), with the same client.
C25_HandshakeAtFinalUrl ==
    [][/\ \A r \in Reqs :
            (rpc[r] = "ws_get" /\ rpc'[r] = "done" /\ rresp'[r].status = 101) =>
               /\ rbridge'[r].get.url = TargetUrl(rreq[r])
               /\ rbridge'[r].get.client = rclient[r]
               /\ rclient[r] # NoClient
               /\ rbridge'[r].spawned
       /\ \A r \in Reqs :
            (rresp'[r].status = 101 /\ rresp[r].status # 101) => rpc[r] = "ws_get"
       /\ (bstate = "none" /\ bstate' = "connecting") =>
            \E r \in Reqs :
               /\ Sent101(r)
               /\ ws_req'.url = rbridge[r].get.response_url
               /\ ws_req'.client = rbridge[r].get.client]_vars

C25_Witness ==
    /\ bstate = "connecting"
    /\ \E r \in Reqs :
          /\ Sent101(r)
          /\ rbridge[r].get.response_url # rbridge[r].get.url
          /\ ws_req.url = rbridge[r].get.response_url

\* The i-th start succeeded and the next start found the two files as the
\* i-th left them.
RestartUntouched(i) ==
    /\ i + 1 <= Len(boots)
    /\ boots[i].result = "ok"
    /\ boots[i + 1].before = boots[i].after

\* C26: materialising the root is idempotent: after a successful
\* CertManager::new(), a second call that finds the two files untouched
\* succeeds by loading the pair the first one left, leaves ca.crt and ca.key
\* as they were and holds the same root certificate and key.
C26_IdempotentMaterialisation ==
    \A i \in 1..Len(boots) :
        RestartUntouched(i) =>
            /\ boots[i + 1].result = "ok"
            /\ boots[i + 1].branch = "load"
            /\ boots[i + 1].root = boots[i].root
            /\ boots[i + 1].after = boots[i].after

C26_Witness ==
    /\ Len(boots) >= 3
    /\ boots[2].branch = "create" /\ boots[2].result = "ok"
    /\ RestartUntouched(2)
    /\ root = boots[2].root

\* A start that did not find both files.
PartialPresence(b) == ~(exists(b.before["ca.crt"]) /\ exists(b.before["ca.key"]))

\* C27: when exactly one of ca.crt and ca.key exists, or neither, new()
\* generates a fresh root pair, and on a successful return both files hold
\* the PEM of the fresh certificate and of the fresh key.
C27_PartialPresenceRegenerates ==
    \A i \in 1..Len(boots) :
        PartialPresence(boots[i]) =>
            /\ boots[i].branch = "create"
            /\ boots[i].result = "ok" =>
                 /\ \A j \in 1..(i - 1) : boots[j].root.cert # boots[i].root.cert
                 /\ \A f \in CaFiles : boots[i].before[f].id # boots[i].root.cert
                 /\ boots[i].root.key = boots[i].root.cert
                 /\ X509_from_pem(boots[i].after["ca.crt"]) = boots[i].root.cert
                 /\ private_key_from_pem(boots[i].after["ca.key"]) = boots[i].root.key

C27_Witness ==
    \E i \in 2..Len(boots) :
        /\ exists(boots[i].before["ca.crt"]) /\ ~exists(boots[i].before["ca.key"])
        /\ boots[i].before["ca.crt"].kind = "CERTIFICATE"
        /\ boots[i].result = "ok"
        /\ disk = boots[i].after
        /\ accepting

\* C28: the root is loaded only if both files are present and both parse;
\* in every other case, both present but one unparsable included, new()
\* generates a fresh root and persists it.
C28_UnparsableRegenerates ==
    \A i \in 1..Len(boots) :
        LET b == boots[i]
            parses == /\ X509_from_pem(b.before["ca.crt"]) # NoId
                      /\ private_key_from_pem(b.before["ca.key"]) # NoId
        IN /\ b.branch = "load" /\ b.result = "ok" => parses
           /\ ~parses => b.branch = "create"

\* C29: every outbound request (the ordinary forward, the WebSocket pre-GET
\* and the WebSocket handshake) is sent with a client built for one profile
\* of the PROFILES catalogue, and an inbound request makes its one
\* get_or_create_session call before its first outbound send: the call is
\* entered only as the request arrives, the request's client is set only by
\* that call and stays the same until the response is written, and a send is
\* reached only from the return of the call.
C29_ProfileTagging ==
    [][/\ \A r \in Reqs :
            /\ Sends(r) =>
                 /\ rclient[r] # NoClient
                 /\ rout'[r].profile = clientHeap[rclient[r]].profile
                 /\ rout'[r].profile \in PROFILES
            /\ rpc'[r] = "ws_get" =>
                 /\ rclient'[r] # NoClient
                 /\ clientHeap'[rclient'[r]].profile \in PROFILES
            /\ (rpc'[r] = "gs_build" /\ rpc[r] # "gs_build") => rpc[r] = "idle"
            /\ (rpc'[r] \in {"collect", "ws_get"} /\ rpc[r] # rpc'[r]) =>
                 rpc[r] = "gs_build" /\ rclient[r] = NoClient
            /\ rclient'[r] # rclient[r] =>
                 \/ rclient[r] = NoClient /\ rpc[r] = "gs_build"
                 \/ rclient'[r] = NoClient /\ rpc'[r] = "idle"
       /\ (bstate = "none" /\ bstate' = "connecting") =>
            /\ ws_req'.client # NoClient
            /\ clientHeap[ws_req'.client].profile \in PROFILES
            /\ \E r \in Reqs : ws_req'.client = rbridge[r].get.client]_vars

C29_Witness ==
    /\ bstate = "connecting"
    /\ clientHeap[ws_req.client].profile \in PROFILES
    /\ Len(clientHeap) >= 2
    /\ \E c \in 1..Len(clientHeap) : clientHeap[c].profile # clientHeap[ws_req.client].profile

C31_SessionEntryInvariant ==
    /\ DOMAIN sessions \subseteq Hosts
    /\ \A h \in DOMAIN sessions :
          /\ sessions[h].cookie_jar \in 1..nextJar
          /\ sessions[h].client \in 1..Len(clientHeap)
          /\ clientHeap[sessions[h].client].jar = sessions[h].cookie_jar
          /\ clientHeap[sessions[h].client].profile = sessions[h].profile
          /\ sessions[h].profile \in PROFILES

\* An entry that was rotated to another profile, next to an entry of another
\* host.
C31_Witness ==
    \E h \in DOMAIN sessions, g \in DOMAIN sessions :
        /\ h # g
        /\ sessions[h].client > 1
        /\ \E c \in 1..Len(clientHeap) :
              /\ clientHeap[c].jar = sessions[h].cookie_jar
              /\ clientHeap[c].profile # sessions[h].profile

\* C32: the cleanup task runs cleanup_sessions at the end of every 5-minute
\* sleep, so an entry that is not acquired again is removed by the first run
\* at or after last_used + 30 minutes: no entry is ever older than 35 minutes,
\* a run removes every entry of 30 minutes or more, and no entry is removed
\* before it is 30 minutes old.
C32_BoundedEviction ==
    /\ [](/\ now <= gcWake
          /\ \A h \in DOMAIN sessions :
                DurationSince(now, sessions[h].last_used)
                    <= SessionTimeoutSecs + GcPeriodSecs)
    /\ [][/\ CleanupRuns =>
               /\ now = gcWake
               /\ gcWake' = now + GcPeriodSecs
               /\ \A h \in DOMAIN sessions :
                     now - sessions[h].last_used >= SessionTimeoutSecs =>
                         h \notin DOMAIN sessions'
          /\ \A h \in DOMAIN sessions :
               h \notin DOMAIN sessions' =>
                  /\ CleanupRuns
                  /\ now - sessions[h].last_used >= SessionTimeoutSecs]_vars

\* The run at 35 minutes has removed the entry of a.test and kept the entry
\* of b.test, which is half a period short of 30 minutes.
C32_Witness ==
    /\ now = 7 * GcPeriodSecs
    /\ gcWake = now + GcPeriodSecs
    /\ "a.test" \notin DOMAIN sessions
    /\ "b.test" \in DOMAIN sessions
    /\ \E j \in removedJars : j \in doneJars["a.test"]
    /\ sessions["b.test"].last_used = now - SessionTimeoutSecs + GcStep

\* C33: leaf entries are keyed by the lowercased host: the cache never holds
\* two entries whose keys differ only in letter case, and a lookup for a host
\* finds the entry stored under any spelling of it and returns that chain.
C33_LeafCacheKeying ==
    /\ [](\A k1 \in DOMAIN cert_cache, k2 \in DOMAIN cert_cache :
             host_to_lowercase(k1) = host_to_lowercase(k2) => k1 = k2)
    /\ [][\A t \in Callers :
             (cpc[t] = "idle" /\ cpc'[t] # "idle") =>
                \A k \in DOMAIN cert_cache :
                   host_to_lowercase(k) = host_to_lowercase(chost'[t]) =>
                       cpc'[t] = "done" /\ cret'[t] = cert_cache[k]]_vars

\* The step in which slot r answers a request that has no authority.
RejectsNoAuthority(r) ==
    rpc[r] = "idle" /\ rpc'[r] = "done" /\ rreq'[r].uri.authority = ""

\* C34: a CONNECT without an authority and a non-CONNECT request without an
\* authority are answered with status 400 or by closing the connection; they
\* produce no outbound request and create or rotate no session.
C34_ProtocolErrors ==
    [][\A r \in Reqs :
          RejectsNoAuthority(r) =>
             /\ rresp'[r].status = 400 \/ rconn'[r] = "closed"
             /\ ~rout'[r].sent
             /\ rbridge'[r] = NoBridge
             /\ sessions' = sessions
             /\ clientHeap' = clientHeap]_vars

\* The map and what hangs on it.
PoolState == <<sessions, clientHeap, nextJar>>

\* C35: get_or_create_session and cleanup_sessions run entirely under the
\* sessions mutex and never suspend while holding it: the mutex is held by a
\* caller exactly while it is inside get_or_create_session, what the caller
\* looked up stays true until it returns, nothing but the holder's own return
\* changes the pool while the mutex is held (so the calls take effect one
\* after another), the return releases the mutex on the Ok path and on the
\* build-error path, cleanup runs only with the mutex free, and a held mutex
\* is always released.
C35_PoolAtomicity ==
    /\ [](\A r \in Reqs :
             /\ (mutex = r) <=> (rpc[r] = "gs_build")
             /\ mutex = r =>
                  /\ rlocal[r].found <=> (rreq[r].host \in DOMAIN sessions)
                  /\ rlocal[r].found =>
                        /\ rlocal[r].jar = sessions[rreq[r].host].cookie_jar
                        /\ rlocal[r].client = sessions[rreq[r].host].client)
    /\ [][/\ \A r \in Reqs :
               /\ (mutex = r /\ PoolState' # PoolState) => rpc'[r] # "gs_build"
               /\ (rpc[r] = "gs_build" /\ rpc'[r] # "gs_build") => mutex' = MutexFree
          /\ CleanupRuns => mutex = MutexFree /\ mutex' = MutexFree
          /\ (mutex # MutexFree /\ mutex' # mutex) => mutex' = MutexFree]_vars
    /\ \A r \in Reqs : (mutex = r) ~> (mutex = MutexFree)

\* A caller has returned the build error and the other caller has taken the
\* mutex after it, while the cleanup task is due and has to wait.
C35_Witness ==
    /\ mutex = 2
    /\ now >= gcWake
    /\ rpc[1] = "done" /\ rresp[1].status = 500 /\ rclient[1] = NoClient
    /\ sessions # << >>

\* C36: the outbound method is the inbound method when that is GET, POST,
\* PUT, DELETE or PATCH and GET for every other inbound method, on the
\* intercepted-HTTPS path and on the plain-HTTP path alike.
C36_MethodMapping ==
    [][\A r \in Reqs :
          Sends(r) =>
             /\ rreq[r].kind \in {"plain", "https"}
             /\ rreq[r].method \in {"GET", "POST", "PUT", "DELETE", "PATCH"} =>
                   rout'[r].method = rreq[r].method
             /\ rreq[r].method \notin {"GET", "POST", "PUT", "DELETE", "PATCH"} =>
                   rout'[r].method = "GET"]_vars

\* A PATCH has gone out as PATCH inside the tunnel.
C36_Witness ==
    \E r \in Reqs :
        /\ rout[r].sent
        /\ rreq[r].kind = "https"
        /\ rreq[r].method = "PATCH"
        /\ rout[r].method = "PATCH"

\* C37: an inner request of a tunnel whose URI has no scheme goes out to the
\* URL with scheme https, the authority of the request if it has one and the
\* host the CONNECT named otherwise, and the request's own path; it goes to
\* the host and the port that the CONNECT named.
C37_TargetSynthesis ==
    [][\A r \in Reqs :
          (Sends(r) /\ rreq[r].kind = "https" /\ rreq[r].uri.scheme = "") =>
             /\ rout'[r].url.scheme = "https"
             /\ rout'[r].url.authority =
                   (IF rreq[r].uri.authority = "" THEN tun[r].host
                    ELSE rreq[r].uri.authority)
             /\ rout'[r].url.path = rreq[r].uri.path
             /\ UrlPort(rout'[r].url) = tun[r].port]_vars

\* C38: after any sequence of CertManager::new() attempts, those that fail at
\* either file write included, every new() that succeeds holds a root
\* certificate and a root private key of the same pair, so that the leaves
\* it signs verify under the root certificate of their chain.
C38_RootPairConsistency ==
    /\ \A i \in 1..Len(boots) :
          boots[i].result = "ok" =>
              boots[i].root.cert # NoId /\ boots[i].root.key = boots[i].root.cert
    /\ accepting => root.key = root.cert

\* The step in which get_or_create_session of request r returns the error
\* of a client that could not be built.
AcquireFails(r) == rpc[r] = "gs_build" /\ rpc'[r] = "done" /\ rclient'[r] = NoClient

\* C39: when get_or_create_session(H) returns an error because the client
\* could not be built, the session map is as it was before the call: no
\* entry is created for a new host, and an existing entry keeps its client,
\* profile, jar and last_used.
C39_FailedAcquireLeavesPool ==
    [][\A r \in Reqs : AcquireFails(r) => sessions' = sessions]_vars

\* C40: when the pre-upgrade GET fails no 101 is sent and no bridge task is
\* spawned, the client gets an error response; the upstream handshake is
\* attempted only after the 101 has been sent, so when it fails the client,
\* already told that the upgrade succeeded, only sees the upgraded stream
\* close, and the session entry and the accept loop are as they were.
C40_UpgradeFailureOrdering ==
    [][/\ \A r \in Reqs :
            (rpc[r] = "ws_get" /\ rpc'[r] = "done" /\ rresp'[r].status # 101) =>
               /\ rresp'[r].status >= 400
               /\ ~rbridge'[r].spawned
               /\ rconn'[r] = rconn[r]
               /\ bstate' = bstate /\ streams' = streams
       /\ (bstate # "connecting" /\ bstate' = "connecting") =>
            \E r \in Reqs : Sent101(r) /\ rresp[r] = NoResp
       /\ (bstate = "connecting" /\ bstate' = "returned") =>
            /\ streams' = {}
            /\ rresp' = rresp
            /\ sessions' = sessions
            /\ accepting' = accepting]_vars

\* The handshake has failed after the 101: the stream is closed, the session
\* of the host is still there and connections are still accepted.
C40_Witness ==
    /\ bstate = "returned"
    /\ streams = {}
    /\ accepting
    /\ \E r \in Reqs : Sent101(r) /\ rbridge[r].get.url.authority \in DOMAIN sessions

====
